---- MODULE Spec2Model ----
(***************************************************************************)
(* A model of incant (llmcmd): the length-prefixed JSON framing codec of   *)
(* src/protocol.rs, the daemon server of src/daemon/server.rs with its     *)
(* lifecycle files, and the clients that talk to it over the Unix socket.  *)
(***************************************************************************)
EXTENDS Integers, Sequences, FiniteSets, TLC

VARIABLES
    codec,      \* one write_message / read_message exchange over an in-memory stream
    config,     \* the Config the daemon process loaded (immutable afterwards)
    fs,         \* lifecycle files: socket file, PID file, startup-status file
    daemon,     \* per daemon process: position in DaemonServer::run, backend handle
    conns,      \* connections: both byte streams, the handler task, the client
    call        \* one client-side call against whatever is at the socket path

vars == <<codec, config, fs, daemon, conns, call>>

(***************************************************************************)
(* Byte counts.  usize and u32 values are kept as two base-65536 limbs     *)
(* <<hi, lo>> so that 4-byte prefixes keep their full width.               *)
(***************************************************************************)
LimbBase == 256 * 256

Sz(n) == <<n \div LimbBase, n % LimbBase>>

SzAdd(a, b) ==
    <<a[1] + b[1] + ((a[2] + b[2]) \div LimbBase), (a[2] + b[2]) % LimbBase>>

SzGt(a, b) == a[1] > b[1] \/ (a[1] = b[1] /\ a[2] > b[2])

SzLt(a, b) == SzGt(b, a)

\* `json.len() as u32`: the value modulo 2^32
AsU32(a) == <<a[1] % LimbBase, a[2]>>

\* u32::to_be_bytes / u32::from_be_bytes
ToBeBytes(u) == <<u[1] \div 256, u[1] % 256, u[2] \div 256, u[2] % 256>>

FromBeBytes(b) == <<b[1] * 256 + b[2], b[3] * 256 + b[4]>>

\* "Sanity check: max 1MB message"
MaxMessageLen == 1000000

(***************************************************************************)
(* Values.  A string is [t, n]: its text and the byte length n of its JSON *)
(* string literal without the quotes.  Option<T> is <<>> or <<x>>.         *)
(***************************************************************************)
None == <<>>

Some(x) == <<x>>

Str(t, n) == [t |-> t, n |-> n]

Lit(t) == Str(t, Sz(Len(t)))

\* PathBuf: serialisable only when it is valid UTF-8
Path(t, n, utf8) == [t |-> t, n |-> n, utf8 |-> utf8]

Context(cwd, shell, os, distro) ==
    [cwd |-> cwd, shell |-> shell, os |-> os, distro |-> distro]

Query(query, context) == [type |-> "query", query |-> query, context |-> context]

Status == [type |-> "status"]

Shutdown == [type |-> "shutdown"]

Response(command, error) == [command |-> command, error |-> error]

(***************************************************************************)
(* JSON documents as serde_json writes and reads them.  An object is the   *)
(* sequence of its members in the order written.                           *)
(***************************************************************************)
JStr(s) == [k |-> "str", s |-> s]

JNull == [k |-> "null"]

JObj(members) == [k |-> "obj", f |-> members]

\* bytes that are no JSON document (or a cut-off one)
JGarbage(n) == [k |-> "garbage", n |-> n]

Member(key, val) == [key |-> key, val |-> val]

RECURSIVE JsonLen(_)
RECURSIVE MembersLen(_)

\* byte length of the compact encoding: "key":value members joined by commas
MembersLen(ms) ==
    IF ms = <<>> THEN Sz(0)
    ELSE SzAdd(SzAdd(Sz(Len(Head(ms).key) + 3), JsonLen(Head(ms).val)),
               IF Len(ms) > 1 THEN SzAdd(Sz(1), MembersLen(Tail(ms))) ELSE Sz(0))

JsonLen(v) ==
    CASE v.k = "str" -> SzAdd(v.s.n, Sz(2))
      [] v.k = "null" -> Sz(4)
      [] v.k = "obj" -> SzAdd(Sz(2), MembersLen(v.f))
      [] v.k = "garbage" -> v.n

\* #[serde(skip_serializing_if = "Option::is_none")]
SkipIfNone(key, opt) ==
    IF opt = None THEN <<>> ELSE <<Member(key, JStr(opt[1]))>>

SerContext(c) ==
    JObj(<<Member("cwd", JStr(Str(c.cwd.t, c.cwd.n))),
           Member("shell", JStr(c.shell)),
           Member("os", JStr(c.os))>>
         \o SkipIfNone("distro", c.distro))

\* #[serde(tag = "type", rename_all = "snake_case")]
SerMessage(m) ==
    CASE m.type = "query" ->
            JObj(<<Member("type", JStr(Lit("query"))),
                   Member("query", JStr(m.query)),
                   Member("context", SerContext(m.context))>>)
      [] m.type = "status" -> JObj(<<Member("type", JStr(Lit("status")))>>)
      [] m.type = "shutdown" -> JObj(<<Member("type", JStr(Lit("shutdown")))>>)

SerResponse(r) ==
    JObj(SkipIfNone("command", r.command) \o SkipIfNone("error", r.error))

\* serde_json::to_vec fails on a path that is not UTF-8
SerFails(kind, v) ==
    kind = "Message" /\ v.type = "query" /\ ~v.context.cwd.utf8

Serialize(kind, v) == IF kind = "Message" THEN SerMessage(v) ELSE SerResponse(v)

\* the values a member key carries in an object
Vals(ms, key) == SelectSeq(ms, LAMBDA m : m.key = key)

\* a required String field: exactly one member, a string
ReqStr(ms, key) ==
    IF Len(Vals(ms, key)) = 1 /\ Vals(ms, key)[1].val.k = "str"
    THEN Some(Vals(ms, key)[1].val.s) ELSE None

\* an Option<String> field: Some(opt) on success, None on a decode error
\* fault: an Option field without #[serde(default)] semantics: a missing
\* key is an error
OptStr_Required(ms, key) ==
    CASE Len(Vals(ms, key)) = 1 /\ Vals(ms, key)[1].val.k = "null" -> Some(None)
      [] Len(Vals(ms, key)) = 1 /\ Vals(ms, key)[1].val.k = "str" ->
            Some(Some(Vals(ms, key)[1].val.s))
      [] OTHER -> None

\* an Option<String> field: a missing key and null are None
OptStr(ms, key) ==
    CASE Len(Vals(ms, key)) = 0 -> Some(None)
      [] Len(Vals(ms, key)) = 1 /\ Vals(ms, key)[1].val.k = "null" -> Some(None)
      [] Len(Vals(ms, key)) = 1 /\ Vals(ms, key)[1].val.k = "str" ->
            Some(Some(Vals(ms, key)[1].val.s))
      [] OTHER -> None

DeContext(v) ==
    IF /\ v.k = "obj"
       /\ ReqStr(v.f, "cwd") # None
       /\ ReqStr(v.f, "shell") # None
       /\ ReqStr(v.f, "os") # None
       /\ OptStr(v.f, "distro") # None
    THEN Some(Context(Path(ReqStr(v.f, "cwd")[1].t, ReqStr(v.f, "cwd")[1].n, TRUE),
                      ReqStr(v.f, "shell")[1],
                      ReqStr(v.f, "os")[1],
                      OptStr(v.f, "distro")[1]))
    ELSE None

DeRequest(ms) ==
    IF /\ ReqStr(ms, "query") # None
       /\ Len(Vals(ms, "context")) = 1
       /\ DeContext(Vals(ms, "context")[1].val) # None
    THEN Some(Query(ReqStr(ms, "query")[1], DeContext(Vals(ms, "context")[1].val)[1]))
    ELSE None

DeMessage(v) ==
    IF v.k # "obj" \/ ReqStr(v.f, "type") = None THEN None
    ELSE CASE ReqStr(v.f, "type")[1].t = "query" -> DeRequest(v.f)
           [] ReqStr(v.f, "type")[1].t = "status" -> Some(Status)
           [] ReqStr(v.f, "type")[1].t = "shutdown" -> Some(Shutdown)
           [] OTHER -> None

DeResponse(v) ==
    IF v.k = "obj" /\ OptStr(v.f, "command") # None /\ OptStr(v.f, "error") # None
    THEN Some(Response(OptStr(v.f, "command")[1], OptStr(v.f, "error")[1]))
    ELSE None

\* serde_json::from_slice::<T>
Deserialize(kind, v) == IF kind = "Message" THEN DeMessage(v) ELSE DeResponse(v)

(***************************************************************************)
(* Byte streams.  A frame on a stream is the prefix bytes that arrived,    *)
(* the document whose encoding follows them, and how many of the           *)
(* document's bytes arrived (avail <= JsonLen(body)).                      *)
(***************************************************************************)
Frame(prefix, body, avail) == [prefix |-> prefix, body |-> body, avail |-> avail]

\* what write_message puts on the stream when every write succeeds
WriteMessage(kind, v) ==
    Frame(ToBeBytes(AsU32(JsonLen(Serialize(kind, v)))),
          Serialize(kind, v),
          JsonLen(Serialize(kind, v)))

ReadResult(st, err, val, used) == [st |-> st, err |-> err, val |-> val, used |-> used]

\* fault: the comparison is >= instead of >
TooLarge_AtLimit(len) == ~SzLt(len, Sz(MaxMessageLen))

TooLarge(len) == SzGt(len, Sz(MaxMessageLen))

\* the len bytes read_exact filled the buffer with
Payload(fr, len) == IF len = JsonLen(fr.body) THEN fr.body ELSE JGarbage(len)

\* fault: read() instead of read_exact(): at end of stream the bytes that
\* arrived are decoded
ReadFrame_Partial(fr, eof, kind) ==
    IF Len(fr.prefix) < 4
    THEN IF eof THEN ReadResult("err", "truncated", None, Sz(Len(fr.prefix)))
         ELSE ReadResult("blocked", "", None, Sz(Len(fr.prefix)))
    ELSE LET len == FromBeBytes(fr.prefix)
             got == IF SzLt(fr.avail, len) THEN fr.avail ELSE len
         IN
         IF TooLarge(len) THEN ReadResult("err", "too_large", None, Sz(4))
         ELSE IF SzLt(fr.avail, len) /\ ~eof
         THEN ReadResult("blocked", "", None, SzAdd(Sz(4), fr.avail))
         ELSE IF Deserialize(kind, Payload(fr, got)) = None
         THEN ReadResult("err", "decode", None, SzAdd(Sz(4), got))
         ELSE ReadResult("ok", "", Deserialize(kind, Payload(fr, got)), SzAdd(Sz(4), got))

\* read_message::<_, T> on a stream holding frame fr; eof: the peer closed
\* its end.  "blocked": read_exact is still waiting for bytes.
ReadFrame(fr, eof, kind) ==
    IF Len(fr.prefix) < 4
    THEN IF eof THEN ReadResult("err", "truncated", None, Sz(Len(fr.prefix)))
         ELSE ReadResult("blocked", "", None, Sz(Len(fr.prefix)))
    ELSE LET len == FromBeBytes(fr.prefix) IN
         IF TooLarge(len) THEN ReadResult("err", "too_large", None, Sz(4))
         ELSE IF SzLt(fr.avail, len)
         THEN IF eof THEN ReadResult("err", "truncated", None, SzAdd(Sz(4), fr.avail))
              ELSE ReadResult("blocked", "", None, SzAdd(Sz(4), fr.avail))
         ELSE IF Deserialize(kind, Payload(fr, len)) = None
         THEN ReadResult("err", "decode", None, SzAdd(Sz(4), len))
         ELSE ReadResult("ok", "", Deserialize(kind, Payload(fr, len)), SzAdd(Sz(4), len))

\* a stream is a sequence of at most one frame here; nothing written: <<>>
ReadMessage(stream, eof, kind) ==
    IF stream = <<>>
    THEN IF eof THEN ReadResult("err", "truncated", None, Sz(0))
         ELSE ReadResult("blocked", "", None, Sz(0))
    ELSE ReadFrame(stream[1], eof, kind)

(***************************************************************************)
(* Configuration (src/config.rs) and the backend handle built from it.     *)
(***************************************************************************)
Profile(model, temperature) == [model |-> model, temperature |-> temperature]

\* Config::default()
ConfigDefault ==
    [backend |-> [type |-> "ollama", host |-> Some("http://localhost:11434"),
                  api_key |-> None, default_profile |-> "default"],
     profiles |-> ("default" :> Profile("qwen2.5-coder:7b", Some("0.1"))
                   @@ "fast" :> Profile("qwen2.5-coder:1.5b", Some("0.1"))
                   @@ "heavy" :> Profile("qwen2.5-coder:32b", Some("0.1"))),
     preferences |-> [modern_tools |-> TRUE, verbose_flags |-> TRUE]]

\* the configuration of test_config_deserialization, with a key in the file
ConfigAnthropic ==
    [backend |-> [type |-> "anthropic", host |-> None,
                  api_key |-> Some("sk-ant"), default_profile |-> "default"],
     profiles |-> ("default" :> Profile("claude-3-5-haiku-latest", Some("0.1"))),
     preferences |-> [modern_tools |-> FALSE, verbose_flags |-> TRUE]]

\* a configuration whose default_profile names no profile
ConfigOpenAI ==
    [backend |-> [type |-> "openai", host |-> None,
                  api_key |-> None, default_profile |-> "work"],
     profiles |-> ("fast" :> Profile("gpt-4o", None)),
     preferences |-> [modern_tools |-> TRUE, verbose_flags |-> FALSE]]

Configs == {ConfigDefault, ConfigAnthropic, ConfigOpenAI}

backend_type(cfg) ==
    CASE cfg.backend.type = "ollama" -> "ollama"
      [] cfg.backend.type = "anthropic" -> "anthropic"
      [] cfg.backend.type = "openai" -> "openai"

default_profile(cfg) == cfg.backend.default_profile

fallback_model(cfg) ==
    CASE cfg.backend.type = "ollama" -> "qwen2.5-coder:7b"
      [] cfg.backend.type = "anthropic" -> "claude-3-5-haiku-latest"
      [] cfg.backend.type = "openai" -> "gpt-4o-mini"

model_name(cfg) ==
    IF default_profile(cfg) \in DOMAIN cfg.profiles
    THEN cfg.profiles[default_profile(cfg)].model
    ELSE fallback_model(cfg)

\* the command line's --model, --profile and --fast
ModelSelection(model, profile, fast) == [model |-> model, profile |-> profile, fast |-> fast]

\* fault: a named profile that does not exist sends the choice straight
\* to the hardcoded fallback
resolve_model_SkipsDefault(sel, cfg) ==
    LET profile_name == IF sel.fast THEN Some("fast") ELSE sel.profile IN
    IF sel.model # None THEN sel.model[1]
    ELSE IF profile_name # None
         THEN IF profile_name[1] \in DOMAIN cfg.profiles
              THEN cfg.profiles[profile_name[1]].model
              ELSE fallback_model(cfg)
    ELSE IF default_profile(cfg) \in DOMAIN cfg.profiles
         THEN cfg.profiles[default_profile(cfg)].model
    ELSE fallback_model(cfg)

\* ModelSelection::resolve_model
resolve_model(sel, cfg) ==
    LET profile_name == IF sel.fast THEN Some("fast") ELSE sel.profile IN
    IF sel.model # None THEN sel.model[1]
    ELSE IF profile_name # None /\ profile_name[1] \in DOMAIN cfg.profiles
         THEN cfg.profiles[profile_name[1]].model
    ELSE IF default_profile(cfg) \in DOMAIN cfg.profiles
         THEN cfg.profiles[default_profile(cfg)].model
    ELSE fallback_model(cfg)

\* fault: the profile's temperature is used even when --model is given
resolve_temperature_IgnoresModel(sel, cfg) ==
    LET profile_name == IF sel.fast THEN Some("fast") ELSE sel.profile
        unwrap_or(t) == IF t = None THEN "0.1" ELSE t[1]
    IN
    IF profile_name # None /\ profile_name[1] \in DOMAIN cfg.profiles
    THEN unwrap_or(cfg.profiles[profile_name[1]].temperature)
    ELSE IF default_profile(cfg) \in DOMAIN cfg.profiles
         THEN unwrap_or(cfg.profiles[default_profile(cfg)].temperature)
    ELSE "0.1"

\* ModelSelection::resolve_temperature; an f32 is its decimal text
resolve_temperature(sel, cfg) ==
    LET profile_name == IF sel.fast THEN Some("fast") ELSE sel.profile
        unwrap_or(t) == IF t = None THEN "0.1" ELSE t[1]
    IN
    IF sel.model # None THEN "0.1"
    ELSE IF profile_name # None /\ profile_name[1] \in DOMAIN cfg.profiles
         THEN unwrap_or(cfg.profiles[profile_name[1]].temperature)
    ELSE IF default_profile(cfg) \in DOMAIN cfg.profiles
         THEN unwrap_or(cfg.profiles[default_profile(cfg)].temperature)
    ELSE "0.1"

Backend(variant, model, host, api_key) ==
    [variant |-> variant, model |-> model, host |-> host, api_key |-> api_key]

\* fault: every hosted provider gets the Anthropic backend
create_backend_OneHosted(cfg) ==
    IF cfg.backend.type = "ollama"
    THEN Backend("Ollama", model_name(cfg), cfg.backend.host, None)
    ELSE Backend("Anthropic", model_name(cfg), None, cfg.backend.api_key)

create_backend(cfg) ==
    CASE cfg.backend.type = "ollama" ->
            Backend("Ollama", model_name(cfg), cfg.backend.host, None)
      [] cfg.backend.type = "anthropic" ->
            Backend("Anthropic", model_name(cfg), None, cfg.backend.api_key)
      [] cfg.backend.type = "openai" ->
            Backend("OpenAI", model_name(cfg), None, cfg.backend.api_key)

BackendName(b) ==
    CASE b.variant = "Ollama" -> "ollama"
      [] b.variant = "Anthropic" -> "anthropic"
      [] b.variant = "OpenAI" -> "openai"

BackendModel(b) == b.model

\* Config::build_system_prompt: the fixed rules, the two preference notes,
\* then the request's context
build_system_prompt(cfg, context) ==
    LET modern_tools_note ==
            IF cfg.preferences.modern_tools
            THEN "- Use modern tools when appropriate (ripgrep over grep, fd over find, bat over cat)"
            ELSE "- Use standard POSIX tools (grep, find, cat)"
        flags_note ==
            IF cfg.preferences.verbose_flags
            THEN "- Prefer long flags for clarity (--recursive over -r) unless brevity is clearly preferred"
            ELSE "- Use short flags for brevity (-r over --recursive)"
        distro_info ==
            IF context.distro = None THEN "" ELSE "\nDistro: " \o context.distro[1].t
    IN "You are a shell command generator. Your ONLY output is the exact command to run.\n"
       \o "\nRules:\n"
       \o "- Output ONLY the command, nothing else\n"
       \o "- No markdown, no backticks, no explanations\n"
       \o "- No preamble like \"Here's the command:\"\n"
       \o "- If multiple commands needed, separate with && or ;\n"
       \o "- Make reasonable assumptions for ambiguous requests\n"
       \o modern_tools_note \o "\n"
       \o flags_note \o "\n"
       \o "\nContext:\n"
       \o "OS: " \o context.os.t \o distro_info \o "\n"
       \o "Shell: " \o context.shell.t \o "\n"
       \o "CWD: " \o context.cwd.t

(***************************************************************************)
(* The provider behind Backend::generate and Backend::health_check is      *)
(* outside the program: each call either yields a command determined by    *)
(* the prompt and the query it was given, or fails with an error chain     *)
(* (outermost context first).                                              *)
(***************************************************************************)
ProviderCommand(system_prompt, user_query) ==
    Lit("run[" \o user_query.t \o "][" \o system_prompt \o "]")

BackendErrors == {<<"Failed to connect to Ollama", "connection refused">>}

GenerateOutcomes(system_prompt, user_query) ==
    {[ok |-> TRUE, command |-> ProviderCommand(system_prompt, user_query), err |-> <<>>]}
    \cup {[ok |-> FALSE, command |-> Lit(""), err |-> e] : e \in BackendErrors}

HealthErrors == {<<"Failed to connect to Ollama - is it running?", "connection refused">>}

\* fault: the root cause is reported instead of the error's own message
ErrToString_Root(e) == e[Len(e)]

\* anyhow's Display prints the outermost message of the chain
ErrToString(e) == e[1]

\* Response::success / Response::error
ResponseSuccess(command) == Response(Some(command), None)

\* fault: the message is stored in both fields
ResponseError_Both(message) == Response(Some(message), Some(message))

ResponseError(message) == Response(None, Some(message))

\* fault: the name is formatted into both places
StatusLine_NameTwice(b) ==
    Lit("Backend: " \o BackendName(b) \o " (" \o BackendName(b) \o ")")

\* the Status answer of handle_client
StatusLine(b) == Lit("Backend: " \o BackendName(b) \o " (" \o BackendModel(b) \o ")")

(***************************************************************************)
(* The daemon (src/daemon/server.rs), its lifecycle files and its clients. *)
(***************************************************************************)
MaxConns == 2

DaemonIds == {1, 2}

\* std::process::id() of daemon process d
Pid(d) == 4000 + d

\* pid.to_string()
PidText(d) == ToString(Pid(d))

\* a file of the filesystem: None, or Some(contents).  The socket file's
\* contents are the listener it names (owner 0: a listener that is gone).
SockFile(owner) == Some([owner |-> owner])

DaemonState(pc, backend, exit) == [pc |-> pc, backend |-> backend, exit |-> exit]

\* a connection right after connect(): queued on the listener, not accepted
NewConn(d) ==
    [srv |-> d, hpc |-> "backlog", cpc |-> "connected",
     c2s |-> <<>>, s2c |-> <<>>, sent |-> None,
     req |-> None, used |-> None, outcome |-> None, resp |-> None, herr |-> "",
     got |-> None]

ConnIds == 1..Len(conns)

\* the bound listener exists from bind() until the process ends
ListenerOpen(d) == daemon[d].pc \in {"pidfile", "listening"}

\* the client dropped its stream (finished, gave up, or failed)
ClientEof(c) == conns[c].cpc \in {"done", "closed", "failed"}

\* the daemon's end of the stream is gone
ServerClosed(c) == conns[c].hpc \in {"closed", "killed"}

\* gather_context() of the client behind connection c
ClientContext(c) ==
    IF c % 2 = 1
    THEN Context(Path("/tmp", Sz(4), TRUE), Lit("/bin/zsh"), Lit("Linux"),
                 Some(Lit("Ubuntu 22.04")))
    ELSE Context(Path("/home/user", Sz(10), TRUE), Lit("/bin/sh"), Lit("Darwin"), None)

\* the overrides the client behind connection c calls send_query with
\* (model: Option<String>, temperature: Option<f32>)
ClientOverrides(c) ==
    IF c % 2 = 1
    THEN [model |-> Some("qwen2.5-coder:1.5b"), temperature |-> Some("0.7")]
    ELSE [model |-> None, temperature |-> None]

\* what the client behind connection c may send: a Query with its own
\* sentinel text, Status or Shutdown
ClientMessages(c) ==
    {Query(Lit("query " \o ToString(c)), ClientContext(c)), Status, Shutdown}

\* streams no write_message produced: an oversized declared length with no
\* payload, a payload cut short, and a payload that is no Message
BadFrames ==
    {Frame(ToBeBytes(Sz(MaxMessageLen + 1)), JGarbage(Sz(0)), Sz(0)),
     Frame(ToBeBytes(Sz(17)), SerMessage(Status), Sz(5)),
     Frame(ToBeBytes(Sz(15)), JObj(<<Member("type", JStr(Lit("ping")))>>), Sz(15))}

\* fault: the exit waits for handlers that hold a response, which is
\* written before their stream goes
KillConns_Drain(d) ==
    [c \in ConnIds |->
        IF conns[c].srv = d /\ ~ServerClosed(c)
        THEN IF conns[c].hpc = "writing"
             THEN [conns[c] EXCEPT !.hpc = "closed",
                      !.s2c = <<WriteMessage("Response", conns[c].resp[1])>>]
             ELSE [conns[c] EXCEPT !.hpc = "killed"]
        ELSE conns[c]]

\* process exit: every stream and task of daemon d goes with it
KillConns(d) ==
    [c \in ConnIds |->
        IF conns[c].srv = d /\ ~ServerClosed(c)
        THEN [conns[c] EXCEPT !.hpc = "killed"] ELSE conns[c]]

(***************************************************************************)
(* DaemonServer::run                                                       *)
(***************************************************************************)
\* fault: a socket file left at the path is not removed
DaemonRemoveStale_Keep(d) ==
    /\ daemon[d].pc = "new"
    /\ daemon' = [daemon EXCEPT ![d].pc = "health"]
    /\ UNCHANGED <<codec, config, fs, conns, call>>

\* "Remove existing socket file"
DaemonRemoveStale(d) ==
    /\ daemon[d].pc = "new"
    /\ fs' = [fs EXCEPT !.sock = None]
    /\ daemon' = [daemon EXCEPT ![d].pc = "health"]
    /\ UNCHANGED <<codec, config, conns, call>>

\* backend.health_check() succeeded
DaemonHealthOk(d) ==
    /\ daemon[d].pc = "health"
    /\ daemon' = [daemon EXCEPT ![d].pc = "bind"]
    /\ UNCHANGED <<codec, config, fs, conns, call>>

\* backend.health_check() failed: run returns the error and the process ends
DaemonHealthFail(d) ==
    /\ daemon[d].pc = "health"
    /\ \E e \in HealthErrors :
          daemon' = [daemon EXCEPT ![d].pc = "exited", ![d].exit = "health_failed"]
    /\ UNCHANGED <<codec, config, fs, conns, call>>

\* UnixListener::bind: creates the socket file, or fails if the path exists
DaemonBind(d) ==
    /\ daemon[d].pc = "bind"
    /\ IF fs.sock = None
       THEN /\ fs' = [fs EXCEPT !.sock = SockFile(d)]
            /\ daemon' = [daemon EXCEPT ![d].pc = "pidfile"]
       ELSE /\ fs' = fs
            /\ daemon' = [daemon EXCEPT ![d].pc = "exited", ![d].exit = "bind_failed"]
    /\ UNCHANGED <<codec, config, conns, call>>

\* write_pid_file, then the accept loop begins
DaemonWritePid(d) ==
    /\ daemon[d].pc = "pidfile"
    /\ fs' = [fs EXCEPT !.pid = Some(PidText(d))]
    /\ daemon' = [daemon EXCEPT ![d].pc = "listening"]
    /\ UNCHANGED <<codec, config, conns, call>>

\* listener.accept() returned the oldest queued connection: spawn its handler
AcceptConn(d, c) ==
    /\ daemon[d].pc = "listening"
    /\ conns[c].srv = d /\ conns[c].hpc = "backlog"
    /\ \A b \in ConnIds : b < c => ~(conns[b].srv = d /\ conns[b].hpc = "backlog")
    /\ conns' = [conns EXCEPT ![c].hpc = "reading"]
    /\ UNCHANGED <<codec, config, fs, daemon, call>>

\* listener.accept() returned an error: it is logged and the loop goes on
AcceptError(d) ==
    /\ daemon[d].pc = "listening"
    /\ UNCHANGED <<codec, config, fs, daemon, conns, call>>

(***************************************************************************)
(* handle_client, one task per accepted connection                         *)
(***************************************************************************)
\* fault: a handler's error is propagated out of the accept loop
OnTaskError_Exit(d) == [daemon[d] EXCEPT !.pc = "exited", !.exit = "handler_error"]

\* a handler task returned Err: the spawned wrapper logs it ("Error handling
\* client") and the daemon goes on as it was
OnTaskError(d) == daemon[d]

\* fault: the request is kept in one slot shared by all tasks, so a task
\* dispatches whichever Query was read last
HandlerRequest_Latest(c) ==
    LET qs == {b \in ConnIds : conns[b].req # None /\ conns[b].req[1].type = "query"}
    IN conns[CHOOSE b \in qs : \A o \in qs : o <= b].req[1]

\* the request the task dispatches: its own local `request`
HandlerRequest(c) == conns[c].req[1]

\* the stream the task writes its response to: its own `stream`
HandlerStream(c) == c

\* fault: a failed read is answered with an error Response
HandlerRead_Replies(c) ==
    /\ conns[c].hpc = "reading"
    /\ LET r == ReadMessage(conns[c].c2s, ClientEof(c), "Message") IN
          /\ r.st # "blocked"
          /\ conns' =
                IF r.st = "err"
                THEN [conns EXCEPT ![c].hpc = "writing", ![c].herr = r.err,
                                   ![c].resp = Some(ResponseError(Lit(r.err)))]
                ELSE CASE r.val[1].type = "query" ->
                            [conns EXCEPT ![c].hpc = "dispatching", ![c].req = r.val,
                                          ![c].c2s = Tail(conns[c].c2s)]
                       [] r.val[1].type = "status" ->
                            [conns EXCEPT
                               ![c].hpc = "writing", ![c].req = r.val,
                               ![c].c2s = Tail(conns[c].c2s),
                               ![c].resp = Some(ResponseSuccess(
                                              StatusLine(daemon[conns[c].srv].backend)))]
                       [] r.val[1].type = "shutdown" ->
                            [conns EXCEPT ![c].hpc = "sd_rmsock", ![c].req = r.val,
                                          ![c].c2s = Tail(conns[c].c2s)]
          /\ daemon' = daemon
    /\ UNCHANGED <<codec, config, fs, call>>

\* read_message, then the match on the message up to its first await:
\* an error ends the task; a Query goes to the backend; Status builds its
\* response from the handle; Shutdown starts the clean-up.  The frame that
\* was read is consumed from the stream.
HandlerRead(c) ==
    /\ conns[c].hpc = "reading"
    /\ LET r == ReadMessage(conns[c].c2s, ClientEof(c), "Message") IN
          /\ r.st # "blocked"
          /\ conns' =
                IF r.st = "err"
                THEN [conns EXCEPT ![c].hpc = "closed", ![c].herr = r.err]
                ELSE CASE r.val[1].type = "query" ->
                            [conns EXCEPT ![c].hpc = "dispatching", ![c].req = r.val,
                                          ![c].c2s = Tail(conns[c].c2s)]
                       [] r.val[1].type = "status" ->
                            [conns EXCEPT
                               ![c].hpc = "writing", ![c].req = r.val,
                               ![c].c2s = Tail(conns[c].c2s),
                               ![c].resp = Some(ResponseSuccess(
                                              StatusLine(daemon[conns[c].srv].backend)))]
                       [] r.val[1].type = "shutdown" ->
                            [conns EXCEPT ![c].hpc = "sd_rmsock", ![c].req = r.val,
                                          ![c].c2s = Tail(conns[c].c2s)]
          /\ daemon' = IF r.st = "err"
                       THEN [daemon EXCEPT ![conns[c].srv] = OnTaskError(conns[c].srv)]
                       ELSE daemon
    /\ UNCHANGED <<codec, config, fs, call>>

\* the model and temperature of the provider request that
\* backend.generate(&system_prompt, &request.query) builds: the handle's
\* model and the fixed 0.1
GenerateCall(b) == [model |-> BackendModel(b), temperature |-> "0.1"]

\* fault: the client's model override is applied by storing it in the
\* shared handle
HandlerGenerate_SetsModel(c) ==
    /\ conns[c].hpc = "dispatching"
    /\ \E o \in GenerateOutcomes(
                   build_system_prompt(config, HandlerRequest(c).context),
                   HandlerRequest(c).query) :
          conns' = [conns EXCEPT
             ![c].hpc = "writing", ![c].outcome = Some(o),
             ![c].used = Some(GenerateCall(daemon[conns[c].srv].backend)),
             ![c].resp = Some(IF o.ok THEN ResponseSuccess(o.command)
                              ELSE ResponseError(Lit(ErrToString(o.err))))]
    /\ daemon' = [daemon EXCEPT ![conns[c].srv].backend.model =
                      IF ClientOverrides(c).model = None THEN @
                      ELSE ClientOverrides(c).model[1]]
    /\ UNCHANGED <<codec, config, fs, call>>

\* fault: the backend call is dropped when the client has gone, as a
\* select! on the stream would do
HandlerGenerate_Cancels(c) ==
    /\ conns[c].hpc = "dispatching"
    /\ IF ClientEof(c)
       THEN conns' = [conns EXCEPT ![c].hpc = "closed", ![c].herr = "cancelled"]
       ELSE \E o \in GenerateOutcomes(
                        build_system_prompt(config, HandlerRequest(c).context),
                        HandlerRequest(c).query) :
               conns' = [conns EXCEPT
                  ![c].hpc = "writing", ![c].outcome = Some(o),
                  ![c].used = Some(GenerateCall(daemon[conns[c].srv].backend)),
                  ![c].resp = Some(IF o.ok THEN ResponseSuccess(o.command)
                                   ELSE ResponseError(Lit(ErrToString(o.err))))]
    /\ UNCHANGED <<codec, config, fs, daemon, call>>

\* backend.generate returned: Ok(command) or Err(e)
HandlerGenerate(c) ==
    /\ conns[c].hpc = "dispatching"
    /\ \E o \in GenerateOutcomes(
                   build_system_prompt(config, HandlerRequest(c).context),
                   HandlerRequest(c).query) :
          conns' = [conns EXCEPT
             ![c].hpc = "writing", ![c].outcome = Some(o),
             ![c].used = Some(GenerateCall(daemon[conns[c].srv].backend)),
             ![c].resp = Some(IF o.ok THEN ResponseSuccess(o.command)
                              ELSE ResponseError(Lit(ErrToString(o.err))))]
    /\ UNCHANGED <<codec, config, fs, daemon, call>>

\* fault: after its response the handler goes back to read the next message
HandlerWrite_Loops(c) ==
    /\ conns[c].hpc = "writing"
    /\ IF ClientEof(HandlerStream(c))
       THEN /\ conns' = [conns EXCEPT ![c].hpc = "closed", ![c].herr = "write_failed"]
            /\ daemon' = [daemon EXCEPT ![conns[c].srv] = OnTaskError(conns[c].srv)]
       ELSE /\ conns' = [conns EXCEPT
                  ![c].hpc = "reading",
                  ![HandlerStream(c)].s2c = <<WriteMessage("Response", conns[c].resp[1])>>]
            /\ daemon' = daemon
    /\ UNCHANGED <<codec, config, fs, call>>

\* write_message(&mut stream, &response): fails when the client is gone
HandlerWrite(c) ==
    /\ conns[c].hpc = "writing"
    /\ IF ClientEof(HandlerStream(c))
       THEN /\ conns' = [conns EXCEPT ![c].hpc = "closed", ![c].herr = "write_failed"]
            /\ daemon' = [daemon EXCEPT ![conns[c].srv] = OnTaskError(conns[c].srv)]
       ELSE /\ conns' = [conns EXCEPT
                  ![c].hpc = "closed",
                  ![HandlerStream(c)].s2c = <<WriteMessage("Response", conns[c].resp[1])>>]
            /\ daemon' = daemon
    /\ UNCHANGED <<codec, config, fs, call>>

\* fault: the socket file is not removed on Shutdown
HandlerShutdownRemoveSocket_Skip(c) ==
    /\ conns[c].hpc = "sd_rmsock"
    /\ conns' = [conns EXCEPT ![c].hpc = "sd_rmpid"]
    /\ UNCHANGED <<codec, config, fs, daemon, call>>

\* Shutdown: `let _ = remove_file(&socket_path)`
HandlerShutdownRemoveSocket(c) ==
    /\ conns[c].hpc = "sd_rmsock"
    /\ fs' = [fs EXCEPT !.sock = None]
    /\ conns' = [conns EXCEPT ![c].hpc = "sd_rmpid"]
    /\ UNCHANGED <<codec, config, daemon, call>>

\* Shutdown: `let _ = remove_file(&pid_path)`, then std::process::exit(0)
HandlerShutdownExit(c) ==
    /\ conns[c].hpc = "sd_rmpid"
    /\ fs' = [fs EXCEPT !.pid = None]
    /\ daemon' = [daemon EXCEPT ![conns[c].srv].pc = "exited",
                                ![conns[c].srv].exit = "shutdown"]
    /\ conns' = KillConns(conns[c].srv)
    /\ UNCHANGED <<codec, config, call>>

(***************************************************************************)
(* Clients                                                                 *)
(***************************************************************************)
\* UnixStream::connect succeeds when the socket file names a live listener
Connect(limit) ==
    /\ Len(conns) < limit
    /\ fs.sock # None
    /\ fs.sock[1].owner \in DaemonIds
    /\ ListenerOpen(fs.sock[1].owner)
    /\ conns' = Append(conns, NewConn(fs.sock[1].owner))
    /\ UNCHANGED <<codec, config, fs, daemon, call>>

ClientConnect == Connect(MaxConns)

\* connections of peers that may go on writing after their first message
MaxSeqConns == 1

SeqConnect == Connect(MaxSeqConns)

\* framing::write_message(&mut stream, &message) by a client
ClientSend(c, m) ==
    /\ conns[c].cpc = "connected"
    /\ IF ServerClosed(c)
       THEN conns' = [conns EXCEPT ![c].cpc = "failed"]
       ELSE conns' = [conns EXCEPT ![c].cpc = "sent", ![c].sent = Some(m),
                                   ![c].c2s = <<WriteMessage("Message", m)>>]
    /\ UNCHANGED <<codec, config, fs, daemon, call>>

\* a peer that writes bytes no write_message would
ClientSendBad(c, fr) ==
    /\ conns[c].cpc = "connected"
    /\ ~ServerClosed(c)
    /\ conns' = [conns EXCEPT ![c].cpc = "sent", ![c].c2s = <<fr>>]
    /\ UNCHANGED <<codec, config, fs, daemon, call>>

\* a peer that writes a second message on a connection it has used
ClientSendMore(c) ==
    /\ conns[c].cpc = "sent"
    /\ ~ServerClosed(c)
    /\ Len(conns[c].c2s) + (IF conns[c].req = None THEN 0 ELSE 1) = 1
    /\ conns' = [conns EXCEPT
                   ![c].c2s = Append(conns[c].c2s, WriteMessage("Message", Status))]
    /\ UNCHANGED <<codec, config, fs, daemon, call>>

\* the client's read of the Response completes (a frame, an error or EOF)
ClientRecv(c) ==
    /\ conns[c].cpc = "sent"
    /\ LET r == ReadMessage(conns[c].s2c, ServerClosed(c), "Response") IN
          /\ r.st # "blocked"
          /\ conns' = [conns EXCEPT ![c].cpc = "done", ![c].got = Some(r)]
    /\ UNCHANGED <<codec, config, fs, daemon, call>>

\* the client disconnects, or its timeout fires and it drops the stream
ClientClose(c) ==
    /\ conns[c].cpc \in {"connected", "sent"}
    /\ conns' = [conns EXCEPT ![c].cpc = "closed"]
    /\ UNCHANGED <<codec, config, fs, daemon, call>>

(***************************************************************************)
(* One write_message / read_message exchange over an in-memory stream.     *)
(***************************************************************************)
CodecStrs ==
    {Lit("list files"), Lit(""), Str("say \"hi\"", Sz(10)),
     Str("x..x", Sz(MaxMessageLen - 14)), Str("x..xx", Sz(MaxMessageLen - 13)),
     Str("y..y", <<LimbBase, 3>>)}

CodecContexts ==
    {Context(cwd, Lit("/bin/zsh"), Lit("Linux 5.15.0"), distro) :
        cwd \in {Path("/home/user", Sz(10), TRUE), Path("/caf\\xE9", Sz(5), FALSE)},
        distro \in {None, Some(Lit("Ubuntu 22.04")), Some(Lit(""))}}

CodecMessages ==
    {Query(q, cx) : q \in {Lit("list files"), Lit(""), Str("x..x", Sz(MaxMessageLen))},
                    cx \in CodecContexts}
    \cup {Status, Shutdown}

CodecResponses ==
    {Response(c, e) : c \in {None} \cup {Some(s) : s \in CodecStrs},
                      e \in {None, Some(Lit("upstream 500"))}}

\* a Query payload whose context carries no distro member
NoDistroQuery ==
    JObj(<<Member("type", JStr(Lit("query"))),
           Member("query", JStr(Lit("q"))),
           Member("context",
                  JObj(<<Member("cwd", JStr(Lit("/"))), Member("shell", JStr(Lit("s"))),
                         Member("os", JStr(Lit("L")))>>))>>)

RawPrefixes ==
    {ToBeBytes(Sz(0)), ToBeBytes(Sz(2)), ToBeBytes(Sz(17)), ToBeBytes(JsonLen(NoDistroQuery)),
     ToBeBytes(Sz(MaxMessageLen)), ToBeBytes(Sz(MaxMessageLen + 1)),
     <<255, 255, 255, 255>>, <<0, 15>>, <<>>}

RawBodies ==
    {JGarbage(Sz(0)), JGarbage(Sz(17)), JGarbage(Sz(MaxMessageLen)),
     JGarbage(Sz(MaxMessageLen + 1)),
     JObj(<<>>),
     JObj(<<Member("type", JStr(Lit("status")))>>),
     JObj(<<Member("query", JStr(Lit("q"))),
            Member("type", JStr(Lit("query"))),
            Member("context",
                   JObj(<<Member("os", JStr(Lit("L"))), Member("shell", JStr(Lit("s"))),
                          Member("distro", JNull), Member("cwd", JStr(Lit("/")))>>))>>),
     NoDistroQuery,
     JObj(<<Member("command", JNull), Member("error", JStr(Lit("e")))>>)}

RawFrames ==
    {Frame(p, b, a) : p \in RawPrefixes, b \in RawBodies, a \in {Sz(0), Sz(1)}}
    \cup {Frame(p, b, JsonLen(b)) : p \in RawPrefixes, b \in RawBodies}

CodecState(pc, src, kind, val, stream, res) ==
    [pc |-> pc, src |-> src, kind |-> kind, val |-> val, stream |-> stream, res |-> res]

CodecIdle ==
    {CodecState("idle", "value", "Message", Some(m), <<>>, None) : m \in CodecMessages}
    \cup {CodecState("idle", "value", "Response", Some(r), <<>>, None) : r \in CodecResponses}
    \cup {CodecState("idle", "raw", k, None, <<>>, None) : k \in {"Message", "Response"}}

\* where the stream may fail a write of write_message: nowhere, before the
\* first byte, once the prefix is out, or one byte into the payload
WriteFaults == {"none", "at_prefix", "at_payload", "in_payload"}

\* write_message: serialise, then write_all(prefix), write_all(payload),
\* flush; `?` returns at the first failure with what was written left on
\* the stream
CodecWrite(fault) ==
    /\ codec.pc = "idle" /\ codec.src = "value"
    /\ IF SerFails(codec.kind, codec.val[1]) \/ fault = "at_prefix"
       THEN codec' = [codec EXCEPT !.pc = "write_failed"]
       ELSE LET fr == WriteMessage(codec.kind, codec.val[1]) IN
            CASE fault = "none" ->
                    codec' = [codec EXCEPT !.pc = "written", !.stream = <<fr>>]
              [] fault = "at_payload" ->
                    codec' = [codec EXCEPT !.pc = "write_failed",
                                 !.stream = <<Frame(fr.prefix, fr.body, Sz(0))>>]
              [] fault = "in_payload" ->
                    codec' = [codec EXCEPT !.pc = "write_failed",
                                 !.stream = <<Frame(fr.prefix, fr.body,
                                                    IF fr.avail = Sz(0) THEN Sz(0) ELSE Sz(1))>>]
    /\ UNCHANGED <<config, fs, daemon, conns, call>>

\* bytes from a peer that is no write_message
CodecInject(fr) ==
    /\ codec.pc = "idle" /\ codec.src = "raw"
    /\ JsonLen(fr.body) = fr.avail \/ SzLt(fr.avail, JsonLen(fr.body))
    /\ Len(fr.prefix) < 4 => fr.avail = Sz(0)
    /\ codec' = [codec EXCEPT !.pc = "written", !.stream = <<fr>>]
    /\ UNCHANGED <<config, fs, daemon, conns, call>>

\* read_message on the stream, whose writer is gone
CodecRead ==
    /\ codec.pc = "written"
    /\ codec' = [codec EXCEPT !.pc = "read",
                              !.res = Some(ReadMessage(codec.stream, TRUE, codec.kind))]
    /\ UNCHANGED <<config, fs, daemon, conns, call>>

(***************************************************************************)
(* The client-side calls (src/client/socket.rs, is_daemon_running of       *)
(* src/daemon/server.rs) against an arbitrary peer at the socket path:     *)
(* no file there, a file nobody listens on, or a listener that accepts and *)
(* then sends any frame, closes, or stays silent.  A timeout may fire at   *)
(* any moment before the awaited operation has completed.                  *)
(***************************************************************************)
CallFns == {"send_query", "check_daemon", "is_daemon_running"}

PathStates == {"absent", "refused", "live"}

\* Config::socket_path() with XDG_RUNTIME_DIR=/run/user/1000
SocketPathText == "/run/user/1000/llmcmd.sock"

CallOk(val) == [ok |-> TRUE, val |-> val, err |-> <<>>]

\* an anyhow error, outermost message first
CallErr(chain) == [ok |-> FALSE, val |-> Lit(""), err |-> chain]

\* is_daemon_running returns a bool
CallBool(b) == [ok |-> b, val |-> Lit(""), err |-> <<>>]

\* the errors read_message returns to its caller
ReadErrorText(err) ==
    CASE err = "too_large" -> "Message too large"
      [] err = "truncated" -> "unexpected end of file"
      [] err = "decode" -> "invalid JSON for the expected type"

\* fault: an error Response is reported with the generic message
Interpret_Generic(response) ==
    IF response.command # None THEN CallOk(response.command[1])
    ELSE CallErr(<<"Invalid response from daemon">>)

\* send_query_to_stream: "Extract the command or error"
Interpret(response) ==
    IF response.command # None THEN CallOk(response.command[1])
    ELSE IF response.error # None THEN CallErr(<<response.error[1].t>>)
    ELSE CallErr(<<"Invalid response from daemon">>)

\* check_daemon: only response.error is looked at
InterpretStatus(response) ==
    IF response.error # None THEN CallErr(<<"Daemon returned error">>)
    ELSE CallOk(Lit(""))

\* which calls wrap connect / read_message in tokio::time::timeout
HasConnectTimeout(fn) == fn \in {"send_query", "check_daemon"}

HasReadTimeout(fn) == fn \in {"send_query", "check_daemon"}

ConnectTimeoutError(fn) ==
    CASE fn = "send_query" -> CallErr(<<"Connection timeout - is the daemon running?">>)
      [] fn = "check_daemon" -> CallErr(<<"Connection timeout">>)

\* fault: the read timeout reuses the connect timeout's message
ReadTimeoutError_AsConnect(fn) == ConnectTimeoutError(fn)

ReadTimeoutError(fn) ==
    CASE fn = "send_query" -> CallErr(<<"Request timeout - LLM took too long">>)
      [] fn = "check_daemon" -> CallErr(<<"Status check timeout">>)

ConnectError(fn) ==
    CASE fn = "send_query" ->
            CallErr(<<"Failed to connect to daemon at " \o SocketPathText
                        \o ". Start it with: llmcmd daemon start",
                      "connect failed">>)
      [] fn = "check_daemon" -> CallErr(<<"connect failed">>)
      [] fn = "is_daemon_running" -> CallBool(FALSE)

\* the request each call writes
CallMessage(fn) ==
    IF fn = "send_query"
    THEN Query(Lit("list files"),
               Context(Path("/tmp", Sz(4), TRUE), Lit("/bin/zsh"), Lit("Linux"), None))
    ELSE Status

\* what a peer may put on the stream: each shape of Response, and bytes
\* that are no Response
PeerFrames ==
    {WriteMessage("Response", Response(c, e)) :
        c \in {None, Some(Lit("ls -la")), Some(Lit("Backend: ollama (qwen2.5-coder:7b)"))},
        e \in {None, Some(Lit("upstream 500"))}}
    \cup BadFrames

CallState(fn, path, pc) ==
    [fn |-> fn, path |-> path, pc |-> pc, at |-> "", out |-> <<>>, in |-> <<>>,
     peer_closed |-> FALSE, got |-> None, result |-> None]

CallOff == CallState("", "absent", "off")

\* the call returns r from the position it is at
Return(r) == [call EXCEPT !.pc = "returned", !.at = call.pc, !.result = Some(r)]

\* fault: no call tests socket_path.exists(); all go straight to connect
CallStart_NoExistsTest ==
    /\ call.pc = "start"
    /\ call' = [call EXCEPT !.pc = "connecting"]
    /\ UNCHANGED <<codec, config, fs, daemon, conns>>

\* check_daemon and is_daemon_running test socket_path.exists() first;
\* send_query goes straight to connect
CallStart ==
    /\ call.pc = "start"
    /\ call' = IF call.fn = "send_query" \/ call.path # "absent"
               THEN [call EXCEPT !.pc = "connecting"]
               ELSE IF call.fn = "check_daemon"
               THEN Return(CallErr(<<"Daemon socket not found at " \o SocketPathText
                                       \o ". Start daemon with: llmcmd daemon start">>))
               ELSE Return(CallBool(FALSE))
    /\ UNCHANGED <<codec, config, fs, daemon, conns>>

\* UnixStream::connect completed: a stream, or an error
CallConnectDone ==
    /\ call.pc = "connecting"
    /\ call' = IF call.path = "live" THEN [call EXCEPT !.pc = "connected"]
               ELSE Return(ConnectError(call.fn))
    /\ UNCHANGED <<codec, config, fs, daemon, conns>>

\* the timeout around connect fired first
CallConnectTimeout ==
    /\ call.pc = "connecting"
    /\ HasConnectTimeout(call.fn)
    /\ call' = Return(ConnectTimeoutError(call.fn))
    /\ UNCHANGED <<codec, config, fs, daemon, conns>>

\* framing::write_message(&mut stream, &message); out keeps the message
\* whose frame went to the peer
CallWrite ==
    /\ call.pc = "connected"
    /\ call' = IF call.peer_closed
               THEN Return(IF call.fn = "is_daemon_running" THEN CallBool(FALSE)
                           ELSE CallErr(<<"broken pipe">>))
               ELSE [call EXCEPT !.pc = "reading", !.out = <<CallMessage(call.fn)>>]
    /\ UNCHANGED <<codec, config, fs, daemon, conns>>

\* framing::read_message::<_, Response> completed
CallReadDone ==
    /\ call.pc = "reading"
    /\ LET r == ReadMessage(call.in, call.peer_closed, "Response") IN
          /\ r.st # "blocked"
          /\ call' =
                [Return(CASE call.fn = "is_daemon_running" -> CallBool(r.st = "ok")
                          [] r.st = "err" -> CallErr(<<ReadErrorText(r.err)>>)
                          [] call.fn = "send_query" /\ r.st = "ok" -> Interpret(r.val[1])
                          [] call.fn = "check_daemon" /\ r.st = "ok" ->
                                InterpretStatus(r.val[1]))
                 EXCEPT !.got = Some(r)]
    /\ UNCHANGED <<codec, config, fs, daemon, conns>>

\* the timeout around read_message fired first
CallReadTimeout ==
    /\ call.pc = "reading"
    /\ HasReadTimeout(call.fn)
    /\ call' = Return(ReadTimeoutError(call.fn))
    /\ UNCHANGED <<codec, config, fs, daemon, conns>>

\* the peer writes a frame to the accepted connection
PeerSend(fr) ==
    /\ call.pc \in {"connected", "reading"}
    /\ call.in = <<>> /\ ~call.peer_closed
    /\ call' = [call EXCEPT !.in = <<fr>>]
    /\ UNCHANGED <<codec, config, fs, daemon, conns>>

\* the peer closes the accepted connection
PeerClose ==
    /\ call.pc \in {"connected", "reading"}
    /\ ~call.peer_closed
    /\ call' = [call EXCEPT !.peer_closed = TRUE]
    /\ UNCHANGED <<codec, config, fs, daemon, conns>>

\* the steps the calling process takes by itself
CallStep ==
    \/ CallStart
    \/ CallConnectDone
    \/ CallConnectTimeout
    \/ CallWrite
    \/ CallReadDone
    \/ CallReadTimeout

(***************************************************************************)
(* Specifications                                                          *)
(***************************************************************************)
CodecOff == CodecState("off", "raw", "Message", None, <<>>, None)

\* a clean runtime directory, or the files a killed daemon left behind
FsInit ==
    {[sock |-> None, pid |-> None, status |-> None],
     [sock |-> SockFile(0), pid |-> Some("3999"), status |-> None]}

\* one daemon process, started by `daemon run`, after DaemonServer::new
Init ==
    /\ codec = CodecOff
    /\ config \in {ConfigDefault, ConfigAnthropic}
    /\ fs \in FsInit
    /\ daemon = [d \in DaemonIds |->
                    IF d = 1 THEN DaemonState("new", create_backend(config), "")
                    ELSE DaemonState("absent", create_backend(config), "")]
    /\ conns = <<>>
    /\ call = CallOff

Next ==
    \/ \E d \in DaemonIds : DaemonRemoveStale(d)
    \/ \E d \in DaemonIds : DaemonHealthOk(d)
    \/ \E d \in DaemonIds : DaemonHealthFail(d)
    \/ \E d \in DaemonIds : DaemonBind(d)
    \/ \E d \in DaemonIds : DaemonWritePid(d)
    \/ \E d \in DaemonIds : AcceptError(d)
    \/ \E d \in DaemonIds, c \in ConnIds : AcceptConn(d, c)
    \/ ClientConnect
    \/ \E c \in ConnIds : \E m \in ClientMessages(c) : ClientSend(c, m)
    \/ \E c \in ConnIds, fr \in BadFrames : ClientSendBad(c, fr)
    \/ \E c \in ConnIds : ClientRecv(c)
    \/ \E c \in ConnIds : ClientClose(c)
    \/ \E c \in ConnIds : HandlerRead(c)
    \/ \E c \in ConnIds : HandlerGenerate(c)
    \/ \E c \in ConnIds : HandlerWrite(c)
    \/ \E c \in ConnIds : HandlerShutdownRemoveSocket(c)
    \/ \E c \in ConnIds : HandlerShutdownExit(c)

Spec == Init /\ [][Next]_vars

\* the same system with peers that may write a second message
SeqNext ==
    \/ \E d \in DaemonIds : DaemonRemoveStale(d)
    \/ \E d \in DaemonIds : DaemonHealthOk(d)
    \/ \E d \in DaemonIds : DaemonHealthFail(d)
    \/ \E d \in DaemonIds : DaemonBind(d)
    \/ \E d \in DaemonIds : DaemonWritePid(d)
    \/ \E d \in DaemonIds : AcceptError(d)
    \/ \E d \in DaemonIds, c \in ConnIds : AcceptConn(d, c)
    \/ SeqConnect
    \/ \E c \in ConnIds : \E m \in ClientMessages(c) : ClientSend(c, m)
    \/ \E c \in ConnIds, fr \in BadFrames : ClientSendBad(c, fr)
    \/ \E c \in ConnIds : ClientSendMore(c)
    \/ \E c \in ConnIds : ClientRecv(c)
    \/ \E c \in ConnIds : ClientClose(c)
    \/ \E c \in ConnIds : HandlerRead(c)
    \/ \E c \in ConnIds : HandlerGenerate(c)
    \/ \E c \in ConnIds : HandlerWrite(c)
    \/ \E c \in ConnIds : HandlerShutdownRemoveSocket(c)
    \/ \E c \in ConnIds : HandlerShutdownExit(c)

SeqSpec == Init /\ [][SeqNext]_vars

CodecInit ==
    /\ codec \in CodecIdle
    /\ config = ConfigDefault
    /\ fs = [sock |-> None, pid |-> None, status |-> None]
    /\ daemon = [d \in DaemonIds |-> DaemonState("absent", create_backend(config), "")]
    /\ conns = <<>>
    /\ call = CallOff

CodecNext ==
    \/ \E fault \in WriteFaults : CodecWrite(fault)
    \/ \E fr \in RawFrames : CodecInject(fr)
    \/ CodecRead

CodecSpec == CodecInit /\ [][CodecNext]_vars

CallInit ==
    /\ codec = CodecOff
    /\ config = ConfigDefault
    /\ fs = [sock |-> None, pid |-> None, status |-> None]
    /\ daemon = [d \in DaemonIds |-> DaemonState("absent", create_backend(config), "")]
    /\ conns = <<>>
    /\ call \in {CallState(fn, path, "start") : fn \in CallFns, path \in PathStates}

CallNext ==
    \/ CallStart
    \/ CallConnectDone
    \/ CallConnectTimeout
    \/ CallWrite
    \/ CallReadDone
    \/ CallReadTimeout
    \/ \E fr \in PeerFrames : PeerSend(fr)
    \/ PeerClose

\* timers fire and the runtime runs a call's ready step; the peer owes nothing
CallSpec == CallInit /\ [][CallNext]_vars /\ WF_vars(CallStep)

(***************************************************************************)
(* The configuration's pure functions: a daemon process builds its backend *)
(* (DaemonServer::new) and a client invocation resolves its model          *)
(* (handle_query), for every backend type, profile table, default profile  *)
(* name and command line of the sets below.                                *)
(***************************************************************************)
\* backend type x default_profile x every table of the profiles "default",
\* "fast" and "heavy"; "fast" carries no temperature
ResolveConfigs ==
    {[backend |-> [type |-> t, host |-> IF t = "ollama"
                                          THEN Some("http://localhost:11434") ELSE None,
                   api_key |-> None, default_profile |-> dp],
      profiles |-> [n \in S |-> Profile("model-" \o n,
                                        CASE n = "default" -> Some("0.3")
                                          [] n = "fast" -> None
                                          [] n = "heavy" -> Some("0.9"))],
      preferences |-> [modern_tools |-> TRUE, verbose_flags |-> TRUE]] :
        t \in {"ollama", "anthropic", "openai"}, dp \in {"default", "work", "fast"},
        S \in SUBSET {"default", "fast", "heavy"}}

ModelSelections ==
    {ModelSelection(m, p, f) :
        m \in {None, Some("custom-model:latest")},
        p \in {None, Some("heavy"), Some("nope")},
        f \in BOOLEAN}

\* DaemonServer::new
DaemonNew(d) ==
    /\ daemon[d].pc = "absent"
    /\ daemon' = [daemon EXCEPT ![d].pc = "new", ![d].backend = create_backend(config)]
    /\ UNCHANGED <<codec, config, fs, conns, call>>

\* handle_query: model_selection.resolve_model(&config) and
\* model_selection.resolve_temperature(&config)
ResolveModel ==
    /\ call.pc = "parsed"
    /\ call' = [call EXCEPT !.pc = "resolved",
                            !.model = Some(resolve_model(call.selection, config)),
                            !.temperature =
                                Some(resolve_temperature(call.selection, config))]
    /\ UNCHANGED <<codec, config, fs, daemon, conns>>

ResolveInit ==
    /\ codec = CodecOff
    /\ config \in ResolveConfigs
    /\ fs = [sock |-> None, pid |-> None, status |-> None]
    /\ daemon = [d \in DaemonIds |-> DaemonState("absent", None, "")]
    /\ conns = <<>>
    /\ call \in {[pc |-> "parsed", selection |-> s, model |-> None, temperature |-> None] :
                   s \in ModelSelections}

ResolveNext ==
    \/ \E d \in DaemonIds : DaemonNew(d)
    \/ ResolveModel

ResolveSpec == ResolveInit /\ [][ResolveNext]_vars

(***************************************************************************)
(* Two daemon processes for one socket path: the one of Init, and a second *)
(* `daemon run` launched at any moment.                                    *)
(***************************************************************************)
MaxMultiConns == 1

MultiNext ==
    \/ \E d \in DaemonIds : DaemonNew(d)
    \/ \E d \in DaemonIds : DaemonRemoveStale(d)
    \/ \E d \in DaemonIds : DaemonHealthOk(d)
    \/ \E d \in DaemonIds : DaemonHealthFail(d)
    \/ \E d \in DaemonIds : DaemonBind(d)
    \/ \E d \in DaemonIds : DaemonWritePid(d)
    \/ \E d \in DaemonIds : AcceptError(d)
    \/ \E d \in DaemonIds, c \in ConnIds : AcceptConn(d, c)
    \/ Connect(MaxMultiConns)
    \/ \E c \in ConnIds : \E m \in ClientMessages(c) : ClientSend(c, m)
    \/ \E c \in ConnIds : ClientRecv(c)
    \/ \E c \in ConnIds : ClientClose(c)
    \/ \E c \in ConnIds : HandlerRead(c)
    \/ \E c \in ConnIds : HandlerGenerate(c)
    \/ \E c \in ConnIds : HandlerWrite(c)
    \/ \E c \in ConnIds : HandlerShutdownRemoveSocket(c)
    \/ \E c \in ConnIds : HandlerShutdownExit(c)

MultiSpec == Init /\ [][MultiNext]_vars

(***************************************************************************)
(* `daemon start` (start_daemon of src/main.rs): the starter checks for a  *)
(* running daemon, clears the startup-status file, spawns `daemon run` and *)
(* polls the status file and the socket.  The spawned process is daemon 1  *)
(* and runs DaemonServer::run; daemon 2 is a daemon that may be listening  *)
(* already.  The status file is written by the spawned process as the      *)
(* specification describes it, at any moment of its run.                   *)
(***************************************************************************)
\* let max_wait = 3000
MaxWait == 3000

\* let poll_interval = 100
PollInterval == 100

\* str::starts_with
StartsWith(text, prefix) ==
    Len(text) >= Len(prefix) /\ SubSeq(text, 1, Len(prefix)) = prefix

\* is_daemon_running() against the daemons of this model: FALSE when no
\* file is at the path or nobody listens behind it; TRUE when the listener
\* accepts and answers the Status message; "blocked" while the connection
\* waits in the backlog of a daemon that has bound and not begun to accept
is_daemon_running ==
    IF fs.sock = None THEN "false"
    ELSE IF fs.sock[1].owner \notin DaemonIds THEN "false"
    ELSE CASE daemon[fs.sock[1].owner].pc = "listening" -> "true"
           [] daemon[fs.sock[1].owner].pc = "pidfile" -> "blocked"
           [] OTHER -> "false"

\* fault: the status file is cleared before the check for a running daemon
StartCheck_ClearsFirst ==
    /\ call.pc = "check"
    /\ is_daemon_running # "blocked"
    /\ call' = IF is_daemon_running = "true"
               THEN [call EXCEPT !.pc = "done", !.report = "already_running", !.exit = Some(0)]
               ELSE [call EXCEPT !.pc = "spawn"]
    /\ fs' = [fs EXCEPT !.status = None]
    /\ UNCHANGED <<codec, config, daemon, conns>>

\* start_daemon up to the spawn: "Check if already running"
StartCheck ==
    /\ call.pc = "check"
    /\ is_daemon_running # "blocked"
    /\ call' = IF is_daemon_running = "true"
               THEN [call EXCEPT !.pc = "done", !.report = "already_running", !.exit = Some(0)]
               ELSE [call EXCEPT !.pc = "spawn"]
    /\ UNCHANGED <<codec, config, fs, daemon, conns>>

\* "Clear any existing startup status file", then spawn `daemon run`; a
\* failed spawn returns the error
StartSpawn ==
    /\ call.pc = "spawn"
    /\ fs' = [fs EXCEPT !.status = None]
    /\ \/ /\ daemon' = [daemon EXCEPT ![1].pc = "new", ![1].backend = create_backend(config)]
          /\ call' = [call EXCEPT !.pc = "loop"]
       \/ /\ daemon' = daemon
          /\ call' = [call EXCEPT !.pc = "done", !.report = "spawn_failed", !.exit = Some(1)]
    /\ UNCHANGED <<codec, config, conns>>

\* fault: an ERROR: status is printed and the polling goes on
StartPoll_ErrorGoesOn ==
    /\ call.pc = "loop" /\ call.waited < MaxWait
    /\ IF fs.status # None /\ StartsWith(fs.status[1], "OK")
       THEN /\ call' = [call EXCEPT !.waited = @ + PollInterval, !.last = fs.status,
                                     !.pc = "done", !.report = "ready", !.exit = Some(0)]
            /\ fs' = fs
       ELSE /\ call' = [call EXCEPT !.waited = @ + PollInterval, !.last = fs.status,
                                     !.saw_error = @ \/ (fs.status # None
                                                          /\ StartsWith(fs.status[1], "ERROR:")),
                                     !.pc = "probe"]
            /\ fs' = fs
    /\ UNCHANGED <<codec, config, daemon, conns>>

\* one turn of the polling loop up to the probe: sleep, waited +=
\* poll_interval, read the status file; OK reports ready, ERROR: removes
\* the file and exits 1, anything else goes on to the probe
StartPoll ==
    /\ call.pc = "loop" /\ call.waited < MaxWait
    /\ IF fs.status # None /\ StartsWith(fs.status[1], "OK")
       THEN /\ call' = [call EXCEPT !.waited = @ + PollInterval, !.last = fs.status,
                                     !.pc = "done", !.report = "ready", !.exit = Some(0)]
            /\ fs' = fs
       ELSE IF fs.status # None /\ StartsWith(fs.status[1], "ERROR:")
       THEN /\ call' = [call EXCEPT !.waited = @ + PollInterval, !.last = fs.status,
                                     !.saw_error = TRUE,
                                     !.pc = "done", !.report = "failed", !.exit = Some(1)]
            /\ fs' = [fs EXCEPT !.status = None]
       ELSE /\ call' = [call EXCEPT !.waited = @ + PollInterval, !.last = fs.status,
                                     !.pc = "probe"]
            /\ fs' = fs
    /\ UNCHANGED <<codec, config, daemon, conns>>

\* the probe that ends a turn of the loop: "If socket exists and responds,
\* we're good"
StartProbe ==
    /\ call.pc = "probe"
    /\ is_daemon_running # "blocked"
    /\ call' = IF is_daemon_running = "true"
               THEN [call EXCEPT !.pc = "done", !.probed = TRUE,
                                 !.report = "ready", !.exit = Some(0)]
               ELSE [call EXCEPT !.pc = "loop"]
    /\ UNCHANGED <<codec, config, fs, daemon, conns>>

\* after the loop: "Timeout - check status file one more time", remove it
\* if it could be read, and exit 1 either way
StartFinal ==
    /\ call.pc = "loop" /\ call.waited >= MaxWait
    /\ call' = [call EXCEPT
                  !.pc = "done", !.last = fs.status,
                  !.after_loop = TRUE,
                  !.saw_error = @ \/ (fs.status # None /\ StartsWith(fs.status[1], "ERROR:")),
                  !.report = IF fs.status # None /\ StartsWith(fs.status[1], "ERROR:")
                             THEN "failed" ELSE "timed_out",
                  !.exit = Some(1)]
    /\ fs' = [fs EXCEPT !.status = None]
    /\ UNCHANGED <<codec, config, daemon, conns>>

\* the spawned daemon writes its startup-status file: OK, ERROR: <cause>,
\* or text that is neither
StatusFileWrite(text) ==
    /\ call.pc \in {"loop", "probe", "done"}
    /\ daemon[1].pc \in {"new", "health", "bind", "pidfile", "listening"}
    /\ fs.status # Some(text)
    /\ fs' = [fs EXCEPT !.status = Some(text)]
    /\ UNCHANGED <<codec, config, daemon, conns, call>>

\* the runtime directory is clean, holds what a killed daemon left, or
\* belongs to a daemon that listens; a status file of an earlier start may
\* be there
StartInit ==
    /\ codec = CodecOff
    /\ config = ConfigDefault
    /\ \E running \in BOOLEAN, st \in {None, Some("OK\n")} :
          /\ daemon = [d \in DaemonIds |->
                          IF d = 2 /\ running
                          THEN DaemonState("listening", create_backend(config), "")
                          ELSE DaemonState("absent", create_backend(config), "")]
          /\ fs \in IF running
                    THEN {[sock |-> SockFile(2), pid |-> Some(PidText(2)), status |-> st]}
                    ELSE {[f EXCEPT !.status = st] : f \in FsInit}
    /\ conns = <<>>
    /\ call = [pc |-> "check", waited |-> 0, last |-> None, saw_error |-> FALSE,
               probed |-> FALSE, after_loop |-> FALSE, report |-> "", exit |-> None]

StartNext ==
    \/ StartCheck
    \/ StartSpawn
    \/ StartPoll
    \/ StartProbe
    \/ StartFinal
    \/ \E text \in {"OK\n", "ERROR: Ollama is not running", "ERR"} : StatusFileWrite(text)
    \/ \E d \in DaemonIds : DaemonRemoveStale(d)
    \/ \E d \in DaemonIds : DaemonHealthOk(d)
    \/ \E d \in DaemonIds : DaemonHealthFail(d)
    \/ \E d \in DaemonIds : DaemonBind(d)
    \/ \E d \in DaemonIds : DaemonWritePid(d)

StartSpec == StartInit /\ [][StartNext]_vars

(***************************************************************************)
(* Several frames on one stream: write_message called up to MaxFrames      *)
(* times, read_message called once per frame written.  codec.at is the     *)
(* frame the reader stands in, codec.off the number of bytes of that       *)
(* frame's payload it has consumed (None: it stands before the prefix).    *)
(***************************************************************************)
MaxFrames == 3

\* the first bytes of the payload that serde_json writes for a Query and
\* for a Response with a command, up to the text; past them a payload of
\* the model that exceeds the limit is its text of "x"
JsonHead(kind) ==
    IF kind = "Message" THEN "{\"type\":\"query\",\"query\":\"" ELSE "{\"command\":\""

\* the bytes of these characters
ByteOf ==
    "{" :> 123 @@ "\"" :> 34 @@ ":" :> 58 @@ "," :> 44 @@ "a" :> 97 @@ "c" :> 99
    @@ "d" :> 100 @@ "e" :> 101 @@ "m" :> 109 @@ "n" :> 110 @@ "o" :> 111
    @@ "p" :> 112 @@ "q" :> 113 @@ "r" :> 114 @@ "t" :> 116 @@ "u" :> 117
    @@ "x" :> 120 @@ "y" :> 121

\* write_message appends its frame to the stream
StreamWrite(kind, v) ==
    /\ codec.pc = "stream" /\ codec.kind = kind /\ Len(codec.wrote) < MaxFrames
    /\ codec' = [codec EXCEPT !.wrote = Append(@, v),
                              !.stream = Append(@, WriteMessage(codec.kind, v))]
    /\ UNCHANGED <<config, fs, daemon, conns, call>>

\* read_message at the reader's place: before a prefix it reads that frame;
\* inside a payload (after "Message too large", which consumed the four
\* bytes of the prefix only) it takes the next four payload bytes for a
\* prefix
StreamRead ==
    /\ codec.pc = "stream" /\ Len(codec.results) < Len(codec.wrote)
    /\ LET fr    == codec.stream[codec.at]
           text  == [i \in 1..4 |->
                        LET k == codec.off[1] + i IN
                        IF k <= Len(JsonHead(codec.kind))
                        THEN SubSeq(JsonHead(codec.kind), k, k) ELSE "x"]
           inner == Frame([i \in 1..4 |-> ByteOf[text[i]]], fr.body, Sz(0))
           res   == IF codec.off = None THEN ReadFrame(fr, FALSE, codec.kind)
                    ELSE ReadFrame(inner, FALSE, codec.kind)
       IN  /\ res.st # "blocked"
           /\ codec' = [codec EXCEPT
                          !.results = Append(@, res),
                          !.at = IF res.err = "too_large" THEN @ ELSE @ + 1,
                          !.off = IF res.err # "too_large" THEN None
                                  ELSE IF codec.off = None THEN Some(0)
                                  ELSE Some(codec.off[1] + 4)]
    /\ UNCHANGED <<config, fs, daemon, conns, call>>

StreamInit ==
    /\ \E kind \in {"Message", "Response"} :
          codec = [pc |-> "stream", kind |-> kind, wrote |-> <<>>, stream |-> <<>>,
                   at |-> 1, off |-> None, results |-> <<>>]
    /\ config = ConfigDefault
    /\ fs = [sock |-> None, pid |-> None, status |-> None]
    /\ daemon = [d \in DaemonIds |-> DaemonState("absent", None, "")]
    /\ conns = <<>>
    /\ call = CallOff

StreamNext ==
    \/ \E v \in {Status, Shutdown, Query(Lit("list files"), ClientContext(1)),
                 Query(Str("x..x", Sz(MaxMessageLen)), ClientContext(1))} :
          StreamWrite("Message", v)
    \/ \E v \in {Response(Some(Lit("ls -la")), None), Response(None, Some(Lit("upstream 500"))),
                 Response(Some(Str("x..x", Sz(MaxMessageLen))), None)} :
          StreamWrite("Response", v)
    \/ StreamRead

StreamSpec == StreamInit /\ [][StreamNext]_vars

(***************************************************************************)
(* One invocation of the command line against the daemons: a query in pipe *)
(* mode or in interactive mode (handle_query, which may call start_daemon) *)
(* or `daemon stop` (stop_daemon of src/main.rs).  call.cmd is the         *)
(* command, call.qpc its position, call.qprobes the results of the probes  *)
(* the command itself made, call.pc the position of a start_daemon it      *)
(* called.                                                                 *)
(***************************************************************************)
\* fault: pipe mode starts the daemon too
QueryProbe_PipeStarts ==
    /\ call.cmd \in {"query_pipe", "query_interactive"} /\ call.qpc = "probe"
    /\ is_daemon_running # "blocked"
    /\ call' = IF is_daemon_running = "true"
               THEN [call EXCEPT !.qpc = "send", !.qprobes = Append(@, "true")]
               ELSE [call EXCEPT !.qpc = "starting", !.pc = "check",
                                 !.qprobes = Append(@, "false")]
    /\ UNCHANGED <<codec, config, fs, daemon, conns>>

\* handle_query: "Ensure daemon is running, try to auto-start if not"
QueryProbe ==
    /\ call.cmd \in {"query_pipe", "query_interactive"} /\ call.qpc = "probe"
    /\ is_daemon_running # "blocked"
    /\ call' = IF is_daemon_running = "true"
               THEN [call EXCEPT !.qpc = "send", !.qprobes = Append(@, "true")]
               ELSE IF call.cmd = "query_pipe"
               THEN [call EXCEPT !.qpc = "done", !.exit = Some(1),
                                 !.qprobes = Append(@, "false")]
               ELSE [call EXCEPT !.qpc = "starting", !.pc = "check",
                                 !.qprobes = Append(@, "false")]
    /\ UNCHANGED <<codec, config, fs, daemon, conns>>

\* start_daemon returned Ok: sleep one second, probe again, exit 1 if the
\* daemon does not answer
QueryProbeAgain ==
    /\ call.qpc = "starting" /\ call.pc = "done" /\ call.exit = Some(0)
    /\ is_daemon_running # "blocked"
    /\ call' = IF is_daemon_running = "true"
               THEN [call EXCEPT !.qpc = "send", !.exit = None,
                                 !.qprobes = Append(@, "true")]
               ELSE [call EXCEPT !.qpc = "done", !.exit = Some(1),
                                 !.qprobes = Append(@, "false")]
    /\ UNCHANGED <<codec, config, fs, daemon, conns>>

\* "Get the query" (--pipe needs one, the prompt may be cancelled), then
\* client::send_query and the exit code of its result
QuerySend ==
    /\ call.qpc = "send"
    /\ \E given, ok \in BOOLEAN :
          call' = IF ~given
                  THEN [call EXCEPT !.qpc = "done",
                           !.exit = Some(IF call.cmd = "query_pipe" THEN 1 ELSE 0)]
                  ELSE [call EXCEPT !.qpc = "done", !.sent = TRUE,
                           !.exit = Some(IF ok THEN 0 ELSE 1)]
    /\ UNCHANGED <<codec, config, fs, daemon, conns>>

\* stop_daemon of main.rs: the probe, then server::stop_daemon up to its
\* connect
StopConnect ==
    /\ call.cmd = "stop" /\ call.qpc = "probe"
    /\ is_daemon_running # "blocked"
    /\ IF is_daemon_running = "false"
       THEN /\ call' = [call EXCEPT !.qpc = "done", !.report = "not_running",
                                    !.exit = Some(0), !.qprobes = Append(@, "false")]
            /\ conns' = conns
       ELSE /\ call' = [call EXCEPT !.qpc = "write", !.conn = Len(conns) + 1,
                                    !.qprobes = Append(@, "true")]
            /\ conns' = Append(conns, NewConn(fs.sock[1].owner))
    /\ UNCHANGED <<codec, config, fs, daemon>>

\* server::stop_daemon writes Shutdown and returns; main prints "Daemon
\* stopped".  The write fails when the daemon has gone meanwhile.
StopWrite ==
    /\ call.cmd = "stop" /\ call.qpc = "write"
    /\ IF ServerClosed(call.conn)
       THEN /\ call' = [call EXCEPT !.qpc = "done", !.report = "write_failed",
                                    !.exit = Some(1)]
            /\ conns' = [conns EXCEPT ![call.conn].cpc = "failed"]
       ELSE /\ call' = [call EXCEPT !.qpc = "done", !.report = "stopped", !.exit = Some(0)]
            /\ conns' = [conns EXCEPT
                           ![call.conn].cpc = "closed", ![call.conn].sent = Some(Shutdown),
                           ![call.conn].c2s = <<WriteMessage("Message", Shutdown)>>]
    /\ UNCHANGED <<codec, config, fs, daemon>>

CliInit ==
    /\ codec = CodecOff
    /\ config = ConfigDefault
    /\ \E running \in BOOLEAN :
          /\ daemon = [d \in DaemonIds |->
                          IF d = 2 /\ running
                          THEN DaemonState("listening", create_backend(config), "")
                          ELSE DaemonState("absent", create_backend(config), "")]
          /\ fs \in IF running
                    THEN {[sock |-> SockFile(2), pid |-> Some(PidText(2)), status |-> None]}
                    ELSE FsInit
    /\ conns = <<>>
    /\ \E cmd \in {"query_pipe", "query_interactive", "stop"} :
          call = [cmd |-> cmd, qpc |-> "probe", qprobes |-> <<>>, sent |-> FALSE, conn |-> 0,
                  pc |-> "idle", waited |-> 0, last |-> None, saw_error |-> FALSE,
                  probed |-> FALSE, after_loop |-> FALSE, report |-> "", exit |-> None]

CliNext ==
    \/ QueryProbe
    \/ QueryProbeAgain
    \/ QuerySend
    \/ StopConnect
    \/ StopWrite
    \/ StartCheck
    \/ StartSpawn
    \/ StartPoll
    \/ StartProbe
    \/ StartFinal
    \/ \E text \in {"OK\n", "ERROR: Ollama is not running"} : StatusFileWrite(text)
    \/ \E d \in DaemonIds : DaemonRemoveStale(d)
    \/ \E d \in DaemonIds : DaemonHealthOk(d)
    \/ \E d \in DaemonIds : DaemonHealthFail(d)
    \/ \E d \in DaemonIds : DaemonBind(d)
    \/ \E d \in DaemonIds : DaemonWritePid(d)
    \/ \E d \in DaemonIds, c \in ConnIds : AcceptConn(d, c)
    \/ \E c \in ConnIds : HandlerRead(c)
    \/ \E c \in ConnIds : HandlerShutdownRemoveSocket(c)
    \/ \E c \in ConnIds : HandlerShutdownExit(c)

CliSpec == CliInit /\ [][CliNext]_vars

(***************************************************************************)
(* The input prompt (run_input_loop of src/client/tui.rs).  The text is a  *)
(* sequence of characters, each character the sequence of its UTF-8 bytes; *)
(* one step is one iteration of the loop, which reads one byte from stdin  *)
(* and, after a lead byte of a multi-byte sequence, up to three more.      *)
(***************************************************************************)
MaxKeys == 3

\* Enter, Escape, Ctrl+C, DEL, Ctrl+U, Ctrl+W, "a", space, and the bytes of
\* U+00E9 (C3 A9), of which A9 alone is no character
InputBytes == {13, 27, 3, 127, 21, 23, 97, 32, 195, 169}

\* `c & 0xE0 == 0xC0`, `c & 0xF0 == 0xE0`, `c & 0xF8 == 0xF0`
Utf8Width(c) ==
    IF c \in 192..223 THEN 2
    ELSE IF c \in 224..239 THEN 3
    ELSE IF c \in 240..247 THEN 4
    ELSE 1

\* std::str::from_utf8 accepts the bytes as one character
from_utf8(bs) ==
    LET Cont(b) == b \in 128..191
    IN  \/ Len(bs) = 1 /\ bs[1] < 128
        \/ Len(bs) = 2 /\ bs[1] \in 194..223 /\ Cont(bs[2])
        \/ /\ Len(bs) = 3 /\ bs[1] \in 224..239 /\ Cont(bs[2]) /\ Cont(bs[3])
           /\ bs[1] = 224 => bs[2] >= 160
           /\ bs[1] = 237 => bs[2] <= 159
        \/ /\ Len(bs) = 4 /\ bs[1] \in 240..244
           /\ Cont(bs[2]) /\ Cont(bs[3]) /\ Cont(bs[4])
           /\ bs[1] = 240 => bs[2] >= 144
           /\ bs[1] = 244 => bs[2] <= 143

\* Ctrl+W: trim_end, then truncate behind the last ' ' or clear
DeleteWord(text) ==
    LET White(ch) == ch \in {<<9>>, <<10>>, <<11>>, <<12>>, <<13>>, <<32>>,
                             <<194, 133>>, <<194, 160>>}
        Ends      == {n \in 0..Len(text) : \A i \in (n + 1)..Len(text) : White(text[i])}
        trimmed   == SubSeq(text, 1, CHOOSE n \in Ends : \A m \in Ends : n <= m)
        Spaces    == {i \in 1..Len(trimmed) : trimmed[i] = <<32>>}
    IN  IF Spaces = {} THEN <<>>
        ELSE SubSeq(text, 1, CHOOSE i \in Spaces : \A j \in Spaces : j <= i)

\* one iteration of the loop on the bytes ks it read (<<>>: the first read
\* returned 0): the text after it and the result it returned, if any
RunInputLoop(text, ks) ==
    IF ks = <<>> THEN [text |-> text, result |-> Some(<<"Cancelled">>)]
    ELSE IF ks[1] \in {13, 10}
    THEN [text |-> text,
          result |-> IF text = <<>> THEN Some(<<"Cancelled">>) ELSE Some(<<"Query", text>>)]
    ELSE IF ks[1] \in {27, 3} THEN [text |-> text, result |-> Some(<<"Cancelled">>)]
    ELSE IF ks[1] \in {127, 8}
    THEN [text |-> SubSeq(text, 1, Len(text) - 1), result |-> None]
    ELSE IF ks[1] = 21 THEN [text |-> <<>>, result |-> None]
    ELSE IF ks[1] = 23 THEN [text |-> DeleteWord(text), result |-> None]
    ELSE IF ks[1] \in 32..126 THEN [text |-> Append(text, ks), result |-> None]
    ELSE IF ks[1] >= 128 /\ from_utf8(ks) THEN [text |-> Append(text, ks), result |-> None]
    ELSE [text |-> text, result |-> None]

\* the bytes one iteration reads: none at end of input, else a first byte
\* and, after a lead byte, the following bytes up to the width or up to the
\* end of input
TuiKey(ks) ==
    /\ call.result = None /\ call.n < MaxKeys
    /\ call.eof => ks = <<>>
    /\ ks # <<>> => Len(ks) <= (IF ks[1] >= 128 THEN Utf8Width(ks[1]) ELSE 1)
    /\ LET r     == RunInputLoop(call.input_text, ks)
           short == ks = <<>> \/ Len(ks) < (IF ks[1] >= 128 THEN Utf8Width(ks[1]) ELSE 1)
       IN  call' = [input_text |-> r.text, result |-> r.result, last |-> ks,
                    eof |-> call.eof \/ short, n |-> call.n + 1]
    /\ UNCHANGED <<codec, config, fs, daemon, conns>>

\* `terminal.draw(..)?` or `stdin.read(..)?` failed
TuiIoError ==
    /\ call.result = None /\ call.n < MaxKeys
    /\ call' = [call EXCEPT !.result = Some(<<"Err">>), !.last = <<>>, !.n = @ + 1]
    /\ UNCHANGED <<codec, config, fs, daemon, conns>>

TuiInit ==
    /\ codec = CodecOff
    /\ config = ConfigDefault
    /\ fs = [sock |-> None, pid |-> None, status |-> None]
    /\ daemon = [d \in DaemonIds |-> DaemonState("absent", None, "")]
    /\ conns = <<>>
    /\ \E initial_query \in {<<>>, <<<<97>>, <<32>>>>} :
          call = [input_text |-> initial_query, result |-> None, last |-> <<>>,
                  eof |-> FALSE, n |-> 0]

TuiNext ==
    \/ \E ks \in UNION {[1..k -> InputBytes] : k \in 0..2} : TuiKey(ks)
    \/ TuiIoError

TuiSpec == TuiInit /\ [][TuiNext]_vars

(***************************************************************************)
(* The Ollama backend's clean-up of a generated command (clean_command of  *)
(* src/daemon/llm/ollama.rs), on strings.  A string of this module cannot  *)
(* hold the backtick (U+0060); the strings of the model have the character *)
(* Tick in its place, a character that no command of the model contains.   *)
(***************************************************************************)
Tick == "#"

\* the part of s between its first and its last character outside drop
\* (str::trim with the white space, str::trim_matches with the backtick)
TrimOf(s, drop) ==
    LET keep == {i \in 1..Len(s) : SubSeq(s, i, i) \notin drop}
    IN  IF keep = {} THEN ""
        ELSE SubSeq(s, CHOOSE i \in keep : \A j \in keep : i <= j,
                       CHOOSE i \in keep : \A j \in keep : j <= i)

\* the places where pat occurs in s (str::find takes the first, str::rfind
\* the last)
Occurrences(s, pat) ==
    {i \in 1..(Len(s) - Len(pat) + 1) : SubSeq(s, i, i + Len(pat) - 1) = pat}

preambles ==
    <<"Here's the command:", "Here is the command:", "The command is:",
      "Run:", "Execute:", "Command:">>

\* `for preamble in preambles`, from the i-th on: each prefix is tried once,
\* in the order of the list
RECURSIVE StripPreambles(_, _)
StripPreambles(command, i) ==
    IF i > Len(preambles) THEN command
    ELSE StripPreambles(IF StartsWith(command, preambles[i])
                        THEN SubSeq(command, Len(preambles[i]) + 1, Len(command))
                        ELSE command,
                        i + 1)

clean_command(response) ==
    LET White    == {" ", "\n", "\t", "\r"}
        trimmed  == TrimOf(response, White)
        lines    == Occurrences(trimmed, "\n")
        body     == IF lines = {} THEN trimmed
                    ELSE SubSeq(trimmed, (CHOOSE i \in lines : \A j \in lines : i <= j) + 1,
                                Len(trimmed))
        fences   == Occurrences(body, Tick \o Tick \o Tick)
        unfenced == IF ~StartsWith(trimmed, Tick \o Tick \o Tick) THEN trimmed
                    ELSE IF fences = {} THEN body
                    ELSE SubSeq(body, 1, (CHOOSE i \in fences : \A j \in fences : j <= i) - 1)
    IN  TrimOf(StripPreambles(TrimOf(unfenced, {Tick}), 1), White)

\* the answers of a model: a command, bare or wrapped in backticks or in a
\* fenced block, behind a preamble or not, with white space around or not
Wrapped(wrap, cmd) ==
    IF wrap = "ticks" THEN Tick \o cmd \o Tick
    ELSE IF wrap = "fence" THEN Tick \o Tick \o Tick \o "bash\n" \o cmd \o "\n" \o Tick \o Tick \o Tick
    ELSE cmd

CleanInit ==
    /\ codec = CodecOff
    /\ config = ConfigDefault
    /\ fs = [sock |-> None, pid |-> None, status |-> None]
    /\ daemon = [d \in DaemonIds |-> DaemonState("absent", None, "")]
    /\ conns = <<>>
    /\ \E lead \in {"", " ", "\n"}, pre \in {""} \cup {preambles[i] : i \in 1..Len(preambles)},
          gap \in {"", " "}, wrap \in {"none", "ticks", "fence"},
          cmd \in {"ls -la", "pwd", "cat a | wc -l"}, tail \in {"", "\n"} :
          call = [pc |-> "response", pre |-> pre, wrap |-> wrap, cmd |-> cmd,
                  padded |-> lead \o tail # "",
                  response |-> lead \o pre \o (IF pre = "" THEN "" ELSE gap)
                                    \o Wrapped(wrap, cmd) \o tail,
                  command |-> None, again |-> None]

\* generate's `clean_command(&ollama_response.response)`, and the same
\* function applied to what it returned
Clean ==
    /\ \/ /\ call.pc = "response"
          /\ call' = [call EXCEPT !.pc = "cleaned",
                                  !.command = Some(clean_command(call.response))]
       \/ /\ call.pc = "cleaned"
          /\ call' = [call EXCEPT !.pc = "twice",
                                  !.again = Some(clean_command(call.command[1]))]
    /\ UNCHANGED <<codec, config, fs, daemon, conns>>

CleanNext == Clean

CleanSpec == CleanInit /\ [][CleanNext]_vars

(***************************************************************************)
(* Properties of the framing codec (CodecSpec)                             *)
(***************************************************************************)
CodecWasRead == codec.pc = "read" /\ codec.res # None

\* C1: whatever Message or Response write_message wrote, read_message
\* applied to the bytes written returns a value equal to the original.
C1_RoundTripEveryValue ==
    (CodecWasRead /\ codec.src = "value")
        => (codec.res[1].st = "ok" /\ codec.res[1].val = codec.val)

\* C2: a stream whose 4-byte prefix declares 1,000,001 bytes or more makes
\* read_message fail as too large having consumed the 4 prefix bytes only;
\* a declared length of exactly 1,000,000 is not rejected as too large.
C2_OversizedRejected ==
    (CodecWasRead /\ Len(codec.stream[1].prefix) = 4)
        => LET len == FromBeBytes(codec.stream[1].prefix) IN
           /\ SzGt(len, Sz(MaxMessageLen))
                 => /\ codec.res[1].st = "err"
                    /\ codec.res[1].err = "too_large"
                    /\ codec.res[1].used = Sz(4)
           /\ len = Sz(MaxMessageLen) => codec.res[1].err # "too_large"

\* a prefix declaring 1,000,001 bytes was read with payload bytes behind it
C2_Witness ==
    /\ CodecWasRead /\ Len(codec.stream[1].prefix) = 4
    /\ FromBeBytes(codec.stream[1].prefix) = Sz(MaxMessageLen + 1)
    /\ SzGt(codec.stream[1].avail, Sz(0))
    /\ codec.res[1].err = "too_large"

\* the stream ended inside the frame: fewer than 4 prefix bytes, or fewer
\* payload bytes than the prefix declares
Truncated(fr) ==
    \/ Len(fr.prefix) < 4
    \/ /\ Len(fr.prefix) = 4
       /\ ~TooLarge(FromBeBytes(fr.prefix))
       /\ SzLt(fr.avail, FromBeBytes(fr.prefix))

\* C25: when the stream closes after fewer than 4 prefix bytes, or before
\* the declared payload has fully arrived, read_message fails with the
\* truncated-stream error and returns no message.
C25_TruncatedFails ==
    (CodecWasRead /\ Truncated(codec.stream[1]))
        => /\ codec.res[1].st = "err"
           /\ codec.res[1].err = "truncated"
           /\ codec.res[1].val = None

\* a stream holding a whole, decodable payload that is shorter than its
\* prefix declares was read, and the read failed
C25_Witness ==
    /\ CodecWasRead /\ Truncated(codec.stream[1])
    /\ Len(codec.stream[1].prefix) = 4
    /\ SzGt(codec.stream[1].avail, Sz(0))
    /\ Deserialize(codec.kind, codec.stream[1].body) # None
    /\ codec.res[1].st = "err"

\* C26: when write_message returns an error, no byte of the prefix or of
\* the payload has been written.
C26_NoPartialWrite ==
    codec.pc = "write_failed" => codec.stream = <<>>

\* the members of the context object of a Query payload
ContextMembers(body) == Vals(body.f, "context")[1].val.f

\* C27: a Query payload whose context has no distro member decodes to a
\* Context whose distro is absent; a Context whose distro is absent is
\* encoded without a distro member; written and read back, its distro is
\* absent.
C27_DistroOptional ==
    /\ (CodecWasRead /\ codec.kind = "Message"
           /\ codec.stream[1] = Frame(ToBeBytes(JsonLen(NoDistroQuery)), NoDistroQuery,
                                      JsonLen(NoDistroQuery)))
          => /\ codec.res[1].st = "ok"
             /\ codec.res[1].val[1].context.distro = None
    /\ (codec.src = "value" /\ codec.kind = "Message" /\ codec.pc \in {"written", "read"}
           /\ codec.val[1].type = "query" /\ codec.val[1].context.distro = None)
          => /\ Vals(ContextMembers(codec.stream[1].body), "distro") = <<>>
             /\ (CodecWasRead /\ ~TooLarge(JsonLen(codec.stream[1].body)))
                   => /\ codec.res[1].st = "ok"
                      /\ codec.res[1].val[1].context.distro = None

\* a Query whose distro is absent was written without the member and read
\* back with its distro absent
C27_Witness ==
    /\ CodecWasRead /\ codec.src = "value" /\ codec.kind = "Message"
    /\ codec.val[1].type = "query" /\ codec.val[1].context.distro = None
    /\ Vals(ContextMembers(codec.stream[1].body), "distro") = <<>>
    /\ codec.res[1].st = "ok"
    /\ codec.res[1].val[1].context.distro = None

\* C32: a frame that write_message wrote declares a length within the
\* 1,000,000-byte limit of read_message, and its 4-byte prefix is the true
\* byte length of its payload, so that read_message reads it back.
C32_WriterWithinReaderLimit ==
    (codec.src = "value" /\ codec.pc \in {"written", "read"})
       => /\ ~TooLarge(FromBeBytes(codec.stream[1].prefix))
          /\ FromBeBytes(codec.stream[1].prefix) = JsonLen(codec.stream[1].body)
          /\ CodecWasRead => codec.res[1].st = "ok"

(***************************************************************************)
(* Properties of the daemon and its connections (Spec)                     *)
(***************************************************************************)
HandlerFailed(c) == conns[c].herr \in {"too_large", "truncated", "decode", "write_failed"}

GotResponse(c) == conns[c].got # None /\ conns[c].got[1].st = "ok"

\* C3: a daemon that is in its accept loop leaves it only in the step in
\* which a handler that read Shutdown exits the process; no accept error,
\* failed read, backend failure, failed write or client disconnect ends it.
C3_OnlyShutdownStops ==
    [][\A d \in DaemonIds :
          (daemon[d].pc = "listening" /\ daemon'[d].pc # "listening")
             => /\ daemon'[d].pc = "exited" /\ daemon'[d].exit = "shutdown"
                /\ \E c \in ConnIds :
                      /\ conns[c].srv = d /\ conns[c].hpc = "sd_rmpid"
                      /\ conns[c].req = Some(Shutdown)]_vars

\* an earlier connection failed in its handler, a later one was answered,
\* and the daemon is still accepting
C3_Witness ==
    \E c1, c2 \in ConnIds :
       /\ c1 < c2 /\ HandlerFailed(c1) /\ GotResponse(c2)
       /\ daemon[conns[c1].srv].pc = "listening" /\ conns[c2].srv = conns[c1].srv

\* C4: the Response a client reads on a connection on which it sent a Query
\* is the one computed from that connection's own query text and context:
\* the provider's command for them, or a backend error message.
C4_Isolation ==
    \A c \in ConnIds :
       (GotResponse(c) /\ conns[c].sent # None /\ conns[c].sent[1].type = "query")
          => LET r == conns[c].got[1].val[1]
                 own == conns[c].sent[1]
             IN \/ r = Response(Some(ProviderCommand(
                                       build_system_prompt(config, own.context),
                                       own.query)), None)
                \/ \E e \in BackendErrors : r = Response(None, Some(Lit(e[1])))

\* two connections were both answered with a command, each with its own
C4_Witness ==
    \E c1, c2 \in ConnIds :
       /\ c1 # c2 /\ GotResponse(c1) /\ GotResponse(c2)
       /\ conns[c1].got[1].val[1].command # None
       /\ conns[c2].got[1].val[1].command # None
       /\ conns[c1].got[1].val[1] # conns[c2].got[1].val[1]

\* the Response handle_client owes a Query whose generate call ended as o
QueryResponse(o) ==
    IF o.ok THEN Response(Some(o.command), None)
    ELSE Response(None, Some(Lit(o.err[1])))

\* C5: for a Query whose generate call succeeded with c the handler holds
\* and writes Response{command: c}, and when it failed with e it holds and
\* writes Response{error: e.to_string()}; after a failure the handler goes
\* on to write (it ends unwritten only if the client has hung up, so that
\* the write itself fails, or the process exits on a Shutdown), and the
\* daemon is ended by nothing but a Shutdown.
C5_BackendResultReported ==
    \A c \in ConnIds :
       conns[c].outcome # None
          => /\ conns[c].resp = Some(QueryResponse(conns[c].outcome[1]))
             /\ conns[c].s2c # <<>>
                   => conns[c].s2c = <<WriteMessage("Response",
                                                    QueryResponse(conns[c].outcome[1]))>>
             /\ conns[c].hpc \in {"writing", "closed", "killed"}
             /\ conns[c].hpc = "closed"
                   => \/ conns[c].s2c # <<>>
                      \/ conns[c].herr = "write_failed" /\ ClientEof(c)
             /\ daemon[conns[c].srv].pc \in {"listening", "exited"}
             /\ daemon[conns[c].srv].pc = "exited"
                   => daemon[conns[c].srv].exit = "shutdown"

\* a backend failure was written as an error Response, the client read it,
\* and the daemon is still accepting
C5_Witness ==
    \E c \in ConnIds :
       /\ conns[c].outcome # None /\ ~conns[c].outcome[1].ok
       /\ GotResponse(c)
       /\ conns[c].got[1].val[1] = Response(None, Some(Lit("Failed to connect to Ollama")))
       /\ daemon[conns[c].srv].pc = "listening"

\* C6: every Response the daemon wrote to a connection decodes to a
\* Response with exactly one of command / error present.
C6_WellFormed ==
    \A c \in ConnIds :
       conns[c].s2c # <<>>
          => LET r == DeResponse(Payload(conns[c].s2c[1], FromBeBytes(conns[c].s2c[1].prefix)))
             IN /\ r # None
                /\ (r[1].command = None) # (r[1].error = None)

\* a Status answer and a Query failure answer have both been written
C6_Witness ==
    \E c1, c2 \in ConnIds :
       /\ conns[c1].s2c # <<>> /\ conns[c1].req = Some(Status)
       /\ conns[c2].s2c # <<>> /\ conns[c2].outcome # None /\ ~conns[c2].outcome[1].ok

\* C7: a daemon whose health check failed has not bound a socket, has not
\* written its PID file and has no connection, and once it has ended no
\* socket file exists at the path, whatever was there before it started.
C7_HealthGate ==
    \A d \in DaemonIds :
       daemon[d].exit = "health_failed"
          => /\ daemon[d].pc = "exited"
             /\ fs.sock = None
             /\ fs.pid # Some(PidText(d))
             /\ \A c \in ConnIds : conns[c].srv # d

\* the health check failed in a directory that held a killed daemon's files
C7_Witness ==
    /\ daemon[1].exit = "health_failed"
    /\ fs.pid = Some("3999")

\* C8 as stated: once the health check has failed, the startup-status file
\* holds a line beginning with ERROR:.
C8_StatusFileHasError ==
    \A d \in DaemonIds :
       daemon[d].exit = "health_failed"
          => fs.status # None /\ fs.status[1].tag = "ERROR"

\* C9 as stated: from the moment the daemon is in its accept loop, and so
\* before it accepted any connection, the startup-status file holds OK and
\* the PID file holds the daemon's process id.
C9_StatusOkAndPid ==
    \A d \in DaemonIds :
       daemon[d].pc = "listening"
          => /\ fs.status # None /\ fs.status[1].tag = "OK"
             /\ fs.pid = Some(PidText(d))

\* C10: once a daemon has handled Shutdown, its process has ended, neither
\* the socket file nor the PID file exists, no connection to it is still
\* served, and a connection attempt finds no listener.
C10_ShutdownEffect ==
    \A d \in DaemonIds :
       daemon[d].exit = "shutdown"
          => /\ daemon[d].pc = "exited"
             /\ fs.sock = None
             /\ fs.pid = None
             /\ ~ListenerOpen(d)
             /\ \A c \in ConnIds : conns[c].srv = d => ServerClosed(c)
             /\ ~ENABLED ClientConnect

\* Shutdown was handled while room for further connections remained
C10_Witness ==
    /\ daemon[1].exit = "shutdown"
    /\ Len(conns) < MaxConns

\* a handler that has been accepted and has not ended
InFlight(c) == conns[c].hpc \in {"reading", "dispatching", "writing"}

\* C11: the step in which a handler exits the process on Shutdown is taken
\* whatever the other handlers are doing, and it ends every connection
\* that was being read, dispatched or written with nothing written to it;
\* such a connection, and the Shutdown connection itself, never carries a
\* Response, and a client reading from it gets a stream error.
C11_ShutdownDoesNotDrain ==
    /\ [][\A d \in DaemonIds :
            (daemon[d].pc = "listening" /\ daemon'[d].exit = "shutdown")
               => \A c \in ConnIds :
                     (conns[c].srv = d /\ InFlight(c))
                        => conns'[c].hpc = "killed" /\ conns'[c].s2c = <<>>]_vars
    /\ [](\A c \in ConnIds :
             /\ conns[c].hpc = "sd_rmpid" => ENABLED HandlerShutdownExit(c)
             /\ (conns[c].hpc = "killed" \/ conns[c].req = Some(Shutdown))
                   => /\ conns[c].s2c = <<>>
                      /\ conns[c].got # None
                            => /\ conns[c].got[1].st = "err"
                               /\ conns[c].got[1].err = "truncated")

\* Shutdown ended the process while a Query was with the backend; the
\* Query's client and the Shutdown's client both read a stream error
C11_Witness ==
    \E c1, c2 \in ConnIds :
       /\ conns[c1].req = Some(Shutdown) /\ daemon[conns[c1].srv].exit = "shutdown"
       /\ conns[c2].srv = conns[c1].srv /\ conns[c2].hpc = "killed"
       /\ conns[c2].req # None /\ conns[c2].req[1].type = "query"
       /\ conns[c1].got # None /\ conns[c1].got[1].st = "err"
       /\ conns[c2].got # None /\ conns[c2].got[1].st = "err"

\* C12: a handler whose read_message failed (declared length too large,
\* stream closed before the prefix or the payload was complete, payload
\* that is no Message) has written nothing to its connection, has made no
\* backend call, and has ended with its stream closed.
C12_DecodeFailureIsSilent ==
    \A c \in ConnIds :
       conns[c].herr \in {"too_large", "truncated", "decode"}
          => /\ conns[c].hpc = "closed"
             /\ conns[c].s2c = <<>>
             /\ conns[c].req = None /\ conns[c].outcome = None /\ conns[c].resp = None

\* two connections failed in their read for different reasons, and the
\* client of one of them read end-of-stream instead of a Response
C12_Witness ==
    \E c1, c2 \in ConnIds :
       /\ conns[c1].herr \in {"too_large", "decode"}
       /\ conns[c2].herr \in {"too_large", "truncated", "decode"}
       /\ conns[c1].herr # conns[c2].herr
       /\ conns[c1].got # None /\ conns[c1].got[1].err = "truncated"

(***************************************************************************)
(* Properties of the client-side calls (CallSpec)                          *)
(***************************************************************************)
\* send_query returned after read_message gave it a Response
QueryAnswered ==
    /\ call.fn = "send_query" /\ call.pc = "returned"
    /\ call.got # None /\ call.got[1].st = "ok"

\* C13: send_query on a received Response: only command present, it
\* returns Ok with exactly that command; only error present, it fails with
\* exactly that message; neither present, it fails with the generic
\* invalid-response error.
C13_Interpretation ==
    QueryAnswered
       => LET r == call.got[1].val[1]
              res == call.result[1]
          IN /\ (r.command # None /\ r.error = None)
                   => res.ok /\ res.val = r.command[1]
             /\ (r.command = None /\ r.error # None)
                   => ~res.ok /\ res.err = <<r.error[1].t>>
             /\ (r.command = None /\ r.error = None)
                   => ~res.ok /\ res.err = <<"Invalid response from daemon">>

\* send_query has returned the daemon's error message as its failure
C13_Witness ==
    /\ QueryAnswered
    /\ call.got[1].val[1] = Response(None, Some(Lit("upstream 500")))
    /\ call.result[1] = CallErr(<<"upstream 500">>)

\* C14: a received Response in which command and error are both present
\* is never returned by send_query as a successful command.
C14_SuccessOnlyIfWellFormed ==
    (QueryAnswered /\ call.got[1].val[1].command # None
                   /\ call.got[1].val[1].error # None)
       => ~call.result[1].ok

\* the errors of send_query's connect phase
ConnectionErrors == {ConnectTimeoutError("send_query"), ConnectError("send_query")}

\* C15: send_query against a path at which nothing listens, or whose
\* connect timeout fires first, fails with a connection error; when it has
\* connected and written its request and nothing arrives before the read
\* timeout fires, it fails with the request-timeout error; a connection
\* error comes from the connect phase only and the request timeout from
\* the read phase only, so the two are never confused.
C15_TimeoutDiscrimination ==
    (call.fn = "send_query" /\ call.pc = "returned")
       => LET res == call.result[1] IN
          /\ call.path # "live" => ~res.ok /\ res \in ConnectionErrors /\ call.at = "connecting"
          /\ res \in ConnectionErrors <=> call.at = "connecting"
          /\ call.at = "connecting" => call.out = <<>>
          /\ res = CallErr(<<"Request timeout - LLM took too long">>)
                => call.at = "reading" /\ call.out # <<>> /\ call.path = "live"
          /\ (call.at = "reading" /\ call.got = None)
                => res = CallErr(<<"Request timeout - LLM took too long">>)
          /\ CallErr(<<"Request timeout - LLM took too long">>) \notin ConnectionErrors

\* send_query timed out on a silent peer after writing its request
C15_Witness ==
    /\ call.fn = "send_query" /\ call.pc = "returned"
    /\ call.in = <<>> /\ ~call.peer_closed /\ call.out # <<>>
    /\ call.result[1] = CallErr(<<"Request timeout - LLM took too long">>)

\* C16: every status probe, check_daemon or is_daemon_running, eventually
\* returns, whatever the peer at the socket path does or fails to do.
C16_ProbeTerminates ==
    (call.fn \in {"check_daemon", "is_daemon_running"}) => <>(call.pc = "returned")

\* C35: is_daemon_running returns true only when the socket file existed,
\* the connect succeeded, the Status message was written and read_message
\* returned a Response; with no socket file it returns false before any
\* connect, and with a socket file nobody listens on it returns false from
\* the failed connect.
C35_ProbeSound ==
    (call.fn = "is_daemon_running" /\ call.pc = "returned")
       => LET res == call.result[1] IN
          /\ res.ok
                => /\ call.path = "live" /\ call.at = "reading"
                   /\ call.out = <<Status>>
                   /\ call.got # None /\ call.got[1].st = "ok"
                   /\ call.in # <<>>
                   /\ call.got[1].used = SzAdd(Sz(4), JsonLen(call.in[1].body))
          /\ call.path = "absent" => ~res.ok /\ call.at = "start" /\ call.out = <<>>
          /\ call.path = "refused" => ~res.ok /\ call.at = "connecting" /\ call.out = <<>>

\* the probe returned true on a Response it read after writing Status
C35_Witness ==
    /\ call.fn = "is_daemon_running" /\ call.pc = "returned"
    /\ call.result[1].ok
    /\ call.out = <<Status>>
    /\ call.got # None /\ call.got[1].st = "ok"

(***************************************************************************)
(* Properties of one connection whose peer may keep writing (SeqSpec)      *)
(***************************************************************************)
\* how far a handler has come: accepted, message read, response ready, ended
HandlerRank(h) ==
    CASE h = "backlog" -> 0
      [] h = "reading" -> 1
      [] h \in {"dispatching", "sd_rmsock"} -> 2
      [] h \in {"writing", "sd_rmpid"} -> 3
      [] h \in {"closed", "killed"} -> 4

\* C17: a handler only moves forward through read, dispatch, write and
\* end; once it has read a Message it reads nothing more from its stream
\* and its request never changes; a Response is on the stream only after
\* the Message was read and dispatched, it is the only one and it is never
\* rewritten; a second message the peer writes stays unread and unanswered.
C17_OneMessagePerConnection ==
    /\ [][\A c \in ConnIds :
            /\ HandlerRank(conns'[c].hpc) >= HandlerRank(conns[c].hpc)
            /\ conns[c].req # None
                  => /\ conns'[c].req = conns[c].req
                     /\ Len(conns'[c].c2s) >= Len(conns[c].c2s)
            /\ conns[c].s2c # <<>> => conns'[c].s2c = conns[c].s2c
            /\ ServerClosed(c) => conns'[c].hpc = conns[c].hpc]_vars
    /\ [](\A c \in ConnIds :
             /\ Len(conns[c].s2c) <= 1
             /\ conns[c].s2c # <<>>
                   => /\ conns[c].hpc = "closed"
                      /\ conns[c].req # None /\ conns[c].resp # None
                      /\ conns[c].req[1].type = "query" => conns[c].outcome # None
                      /\ conns[c].s2c = <<WriteMessage("Response", conns[c].resp[1])>>)

\* the handler answered the first message and ended; the second message
\* is still on the stream, and the client has read the one Response
C17_Witness ==
    \E c \in ConnIds :
       /\ conns[c].hpc = "closed" /\ conns[c].s2c # <<>>
       /\ conns[c].c2s = <<WriteMessage("Message", Status)>>
       /\ GotResponse(c)

(***************************************************************************)
(* Properties of Status and of the backend handle (Spec)                   *)
(***************************************************************************)
\* a handler has read Status on connection c
StatusRead(c) == conns[c].req = Some(Status)

\* C18 as stated: the answer to Status is
\* Response{command: "<backend name> (<model>)", error: absent}.
C18_StatusAnswerBare ==
    \A c \in ConnIds :
       StatusRead(c)
          => conns[c].resp = Some(Response(
                Some(Lit(backend_type(config) \o " (" \o model_name(config) \o ")")),
                None))

\* C18 amended: the answer to Status is
\* Response{command: "Backend: <backend name> (<model>)", error: absent},
\* name and model being those of the handle built at startup; it is ready
\* as soon as Status is read, with no generate call made for the connection
\* and no health check run (the daemon stays in its accept loop), and it
\* is what gets written.
C18_StatusAnswer ==
    \A c \in ConnIds :
       StatusRead(c)
          => LET answer == Response(
                     Some(Lit("Backend: " \o backend_type(config)
                                 \o " (" \o model_name(config) \o ")")),
                     None)
             IN /\ conns[c].resp = Some(answer)
                /\ conns[c].outcome = None
                /\ conns[c].hpc \in {"writing", "closed", "killed"}
                /\ daemon[conns[c].srv].pc \in {"listening", "exited"}
                /\ daemon[conns[c].srv].backend = create_backend(config)
                /\ conns[c].s2c # <<>> => conns[c].s2c = <<WriteMessage("Response", answer)>>
                /\ GotResponse(c) => conns[c].got[1].val = Some(answer)

\* a client of the daemon configured for Anthropic has read its Status answer
C18_Witness ==
    \E c \in ConnIds :
       /\ StatusRead(c) /\ GotResponse(c)
       /\ conns[c].got[1].val[1].command
             = Some(Lit("Backend: anthropic (claude-3-5-haiku-latest)"))

\* C19: the backend call made for a Query uses the model and the
\* temperature the client gave as overrides when it gave them, and the
\* configured ones when it gave none.
C19_OverridesUsed ==
    \A c \in ConnIds :
       conns[c].used # None
          => LET o == ClientOverrides(c)
                 b == create_backend(config)
             IN /\ conns[c].used[1].model =
                      IF o.model = None THEN BackendModel(b) ELSE o.model[1]
                /\ conns[c].used[1].temperature =
                      IF o.temperature = None THEN "0.1" ELSE o.temperature[1]

\* C20: variant, model, host and credential of a daemon's backend handle
\* are in every state those it was constructed with; no step changes them.
C20_HandleImmutable ==
    /\ [][\A d \in DaemonIds : daemon'[d].backend = daemon[d].backend]_vars
    /\ [](\A d \in DaemonIds : daemon[d].backend = create_backend(config))

\* a Query whose client asked for another model has been dispatched, a
\* request on another connection has failed, and the handle is as built
C20_Witness ==
    \E c1, c2 \in ConnIds :
       /\ conns[c1].used # None /\ ClientOverrides(c1).model # None
       /\ conns[c2].herr # "" \/ (conns[c2].outcome # None /\ ~conns[c2].outcome[1].ok)
       /\ c1 # c2
       /\ daemon[conns[c1].srv].backend = create_backend(config)

\* connection c carries a Query whose client has gone while the backend
\* call is out
Abandoned(c) == conns[c].hpc = "dispatching" /\ ClientEof(c)

\* C24: when the client of a Query disconnects or times out while the
\* backend call is out, the call is not cancelled: the handler's next step
\* is the call's result (success or failure), unless the process exits for
\* a Shutdown.  The write of that response fails, nothing of it reaches
\* the stream, the handler ends, and the failing step changes neither the
\* daemon nor any other connection.
C24_AbandonedRunsOn ==
    /\ [][\A c \in ConnIds :
            /\ (Abandoned(c) /\ conns'[c] # conns[c])
                  => \/ /\ conns'[c].hpc = "writing"
                        /\ conns'[c].outcome # None
                        /\ conns'[c].outcome[1] \in
                              GenerateOutcomes(
                                 build_system_prompt(config, conns[c].req[1].context),
                                 conns[c].req[1].query)
                     \/ /\ conns'[c].hpc = "killed"
                        /\ daemon'[conns[c].srv].exit = "shutdown"
            /\ (conns[c].herr # "write_failed" /\ conns'[c].herr = "write_failed")
                  => /\ conns[c].hpc = "writing" /\ ClientEof(c)
                     /\ daemon' = daemon /\ fs' = fs
                     /\ \A o \in ConnIds \ {c} : conns'[o] = conns[o]]_vars
    /\ [](\A c \in ConnIds :
            conns[c].herr = "write_failed"
               => /\ conns[c].hpc = "closed"
                  /\ conns[c].s2c = <<>>
                  /\ conns[c].resp # None)

\* a Query's client went away during the backend call, the call returned a
\* command, the write failed; the daemon listens on and has answered the
\* other connection
C24_Witness ==
    \E c, o \in ConnIds :
       /\ c # o
       /\ conns[c].herr = "write_failed" /\ conns[c].hpc = "closed"
       /\ conns[c].req # None /\ conns[c].req[1].type = "query"
       /\ conns[c].outcome # None /\ conns[c].outcome[1].ok
       /\ conns[c].got = None
       /\ daemon[conns[c].srv].pc = "listening"
       /\ GotResponse(o) /\ conns[o].srv = conns[c].srv

\* C28: the socket path is touched (a stale file removed, the socket
\* bound) only by a daemon whose health check has completed successfully,
\* or later by its Shutdown handler, so a start that fails its health check
\* leaves the path as it found it; and a handler task exists only for a
\* daemon that has bound.
C28_HealthBeforeSocketPath ==
    /\ [][fs'.sock # fs.sock
            => \/ \E d \in DaemonIds : daemon[d].pc = "bind"
               \/ \E c \in ConnIds : conns[c].hpc = "sd_rmsock"]_vars
    /\ [](\A c \in ConnIds : daemon[conns[c].srv].pc \in {"pidfile", "listening", "exited"})

(***************************************************************************)
(* Properties of two daemons at one socket path (MultiSpec)                *)
(***************************************************************************)
\* a Shutdown handler of daemon d is between removing the socket file and
\* the exit
ShuttingDown(d) ==
    \E c \in ConnIds : conns[c].srv = d /\ conns[c].hpc \in {"sd_rmsock", "sd_rmpid"}

\* C23: at most one daemon process holds a listening socket for the socket
\* path, and a daemon that holds one and is not shutting down is the one
\* the socket file names.
C23_OneLiveSocket ==
    /\ Cardinality({d \in DaemonIds : ListenerOpen(d)}) <= 1
    /\ \A d \in DaemonIds :
          (ListenerOpen(d) /\ ~ShuttingDown(d)) => fs.sock = SockFile(d)

\* C37: whenever a daemon accepts connections and the socket file names
\* its listener, the PID file exists and holds that daemon's process id.
C37_PidFileNamesListener ==
    \A d \in DaemonIds :
       (daemon[d].pc = "listening" /\ fs.sock = SockFile(d))
          => fs.pid = Some(PidText(d))

(***************************************************************************)
(* Properties of `daemon start` (StartSpec)                                *)
(***************************************************************************)
\* the step by which start_daemon finishes
StartFinishes == call.pc # "done" /\ call'.pc = "done"

\* C22: on every path by which start_daemon finishes after having read the
\* status file (it read OK, it read ERROR:, or it read the file at the
\* timeout), the status file is deleted when it finishes.
C22_StatusFileConsumed ==
    [][(StartFinishes /\ call'.last # None
          /\ \/ StartsWith(call'.last[1], "OK")
             \/ StartsWith(call'.last[1], "ERROR:")
             \/ call'.after_loop)
         => fs'.status = None]_vars

\* C30: start_daemon reports ready only after it read a status file that
\* begins with OK or after a Status probe succeeded; once it has read a
\* status that begins with ERROR: it reports failure with exit code 1 and
\* never ready; it reports the timeout, with exit code 1, only after 30
\* polls of 100 ms in which it saw neither.
C30_StartOutcome ==
    /\ call.report = "ready"
          => /\ call.exit = Some(0)
             /\ ~call.saw_error
             /\ \/ call.last # None /\ StartsWith(call.last[1], "OK")
                \/ call.probed
    /\ call.saw_error
          => call.pc = "done" /\ call.report = "failed" /\ call.exit = Some(1)
    /\ call.report = "failed" => call.saw_error
    /\ call.report = "timed_out"
          => /\ call.exit = Some(1)
             /\ call.waited = 30 * 100
             /\ ~call.probed /\ ~call.saw_error
    /\ call.waited \in {n * 100 : n \in 0..30}
    /\ (call.pc = "loop" /\ call.waited = 30 * 100)
          => ENABLED StartFinal /\ ~ENABLED StartPoll

\* the spawned daemon failed its health check and left no status; the
\* starter polled 30 times and reported the timeout
C30_Witness ==
    /\ call.report = "timed_out" /\ call.exit = Some(1)
    /\ call.waited = 30 * 100
    /\ daemon[1].exit = "health_failed"
    /\ call.last = None

\* C33: when the Status probe at the beginning of start_daemon succeeds,
\* start_daemon returns success in that step, having spawned no process
\* and left the status file (and every other file) as it was; the spawn
\* is reached only from a probe that failed, and a daemon process appears
\* only by that spawn.
C33_StartIdempotent ==
    /\ [][/\ call.pc = "check"
             => /\ is_daemon_running = "true"
                   => /\ call'.pc = "done" /\ call'.report = "already_running"
                      /\ call'.exit = Some(0)
                      /\ fs' = fs /\ daemon' = daemon
                /\ call'.pc = "spawn" => is_daemon_running = "false" /\ fs' = fs
          /\ \A d \in DaemonIds :
                (daemon[d].pc = "absent" /\ daemon'[d].pc # "absent") => call.pc = "spawn"]_vars
    /\ [](call.report = "already_running" => daemon[1].pc = "absent")

\* a daemon was listening and a status file of an earlier start was there:
\* start_daemon returned success, spawned nothing and the file is still there
C33_Witness ==
    /\ call.report = "already_running" /\ call.exit = Some(0)
    /\ daemon[2].pc = "listening" /\ daemon[1].pc = "absent"
    /\ fs.status = Some("OK\n")

(***************************************************************************)
(* Properties of a stream of several frames (StreamSpec)                   *)
(***************************************************************************)
\* C31: a successful read_message consumes the four bytes of the prefix and
\* the payload of its frame and no more, so the i-th read_message on a
\* stream returns the i-th message that write_message put on it.
C31_FrameBoundaries ==
    codec.pc = "stream"
       => \A i \in 1..Len(codec.results) :
             /\ codec.results[i].st = "ok"
             /\ codec.results[i].val = Some(codec.wrote[i])
             /\ codec.results[i].used = SzAdd(Sz(4), JsonLen(codec.stream[i].body))

(***************************************************************************)
(* Properties of a query invocation and of `daemon stop` (CliSpec)         *)
(***************************************************************************)
\* C34: handle_query sends the query only after a Status probe of its own
\* has succeeded; in pipe mode a failed probe exits with code 1 and no
\* daemon is spawned; in interactive mode a failed probe calls
\* start_daemon, a second probe is made only after start_daemon returned
\* success, and when that second probe fails the process exits with code 1
\* and no query is sent.
C34_QueryGated ==
    call.cmd \in {"query_pipe", "query_interactive"}
       => /\ Len(call.qprobes) <= 2
          /\ (call.sent \/ call.qpc = "send")
                => call.qprobes # <<>> /\ call.qprobes[Len(call.qprobes)] = "true"
          /\ (call.cmd = "query_pipe" /\ call.qprobes # <<>> /\ call.qprobes[1] = "false")
                => /\ call.qprobes = <<"false">>
                   /\ call.qpc = "done" /\ call.exit = Some(1) /\ ~call.sent
                   /\ call.pc = "idle" /\ daemon[1].pc = "absent"
          /\ (call.cmd = "query_interactive" /\ call.qprobes # <<>>
                /\ call.qprobes[1] = "false")
                => call.pc # "idle"
          /\ call.pc # "idle" => call.qprobes # <<>> /\ call.qprobes[1] = "false"
          /\ Len(call.qprobes) = 2
                => /\ call.cmd = "query_interactive" /\ call.qprobes[1] = "false"
                   /\ call.pc = "done" /\ call.report \in {"ready", "already_running"}
          /\ call.qprobes = <<"false", "false">>
                => call.qpc = "done" /\ call.exit = Some(1) /\ ~call.sent

\* an interactive query found no daemon, started one, probed again with
\* success and sent its query
C34_Witness ==
    /\ call.cmd = "query_interactive"
    /\ call.qprobes = <<"false", "true">>
    /\ call.report = "ready"
    /\ call.sent
    /\ daemon[1].pc = "listening"

\* C36: when `daemon stop` has reported "Daemon stopped", the daemon has
\* handled the Shutdown message: the socket file and the PID file are
\* gone and a Status probe finds no daemon running.
C36_StopAcknowledged ==
    (call.cmd = "stop" /\ call.report = "stopped")
       => /\ fs.sock = None /\ fs.pid = None
          /\ is_daemon_running = "false"
          /\ daemon[conns[call.conn].srv].pc = "exited"

(***************************************************************************)
(* Properties of the configuration's functions (ResolveSpec)               *)
(***************************************************************************)
\* the profile a command line names: "fast" under --fast, else --profile
SelectedProfile(sel) == IF sel.fast THEN Some("fast") ELSE sel.profile

\* C21: for every configuration (Ollama, Anthropic or OpenAI, its default
\* profile present or not) create_backend yields a backend, of the variant
\* the configuration names: its name() is backend_type() and its model() is
\* model_name().
C21_VariantPreserved ==
    \A d \in DaemonIds :
       daemon[d].pc = "new"
          => /\ daemon[d].backend # None
             /\ daemon[d].backend.variant \in {"Ollama", "Anthropic", "OpenAI"}
             /\ BackendName(daemon[d].backend) = backend_type(config)
             /\ BackendModel(daemon[d].backend) = model_name(config)
             /\ config.backend.type =
                   CASE daemon[d].backend.variant = "Ollama" -> "ollama"
                     [] daemon[d].backend.variant = "Anthropic" -> "anthropic"
                     [] daemon[d].backend.variant = "OpenAI" -> "openai"

\* an OpenAI backend built from a configuration whose default profile is
\* missing: its model is the hardcoded fallback
C21_Witness ==
    /\ daemon[1].pc = "new"
    /\ config.backend.type = "openai"
    /\ default_profile(config) \notin DOMAIN config.profiles
    /\ BackendModel(daemon[1].backend) = "gpt-4o-mini"

\* C29: resolve_model returns the explicit --model when given; else the
\* model of the profile named by --fast ("fast") or --profile when that
\* profile exists; else the model of the backend's default profile when it
\* exists; else the backend's hardcoded fallback.  It returns a model for
\* every selection and configuration.
C29_ResolvePriority ==
    call.pc = "resolved"
       => LET sel == call.selection
              name == SelectedProfile(sel)
          IN /\ call.model # None
             /\ sel.model # None => call.model = sel.model
             /\ (sel.model = None /\ name # None /\ name[1] \in DOMAIN config.profiles)
                   => call.model[1] = config.profiles[name[1]].model
             /\ (sel.model = None
                   /\ (name = None \/ name[1] \notin DOMAIN config.profiles)
                   /\ default_profile(config) \in DOMAIN config.profiles)
                   => call.model[1] = config.profiles[default_profile(config)].model
             /\ (sel.model = None
                   /\ (name = None \/ name[1] \notin DOMAIN config.profiles)
                   /\ default_profile(config) \notin DOMAIN config.profiles)
                   => call.model[1] = fallback_model(config)

\* --profile names a profile that does not exist while the default profile
\* does: the default profile's model was chosen
C29_Witness ==
    /\ call.pc = "resolved"
    /\ call.selection.model = None /\ ~call.selection.fast
    /\ call.selection.profile = Some("nope")
    /\ default_profile(config) \in DOMAIN config.profiles
    /\ call.model[1] = config.profiles[default_profile(config)].model
    /\ call.model[1] # fallback_model(config)

\* the temperature of profile name in the configuration, 0.1 if it has none
ProfileTemperature(name) ==
    IF config.profiles[name].temperature = None THEN "0.1"
    ELSE config.profiles[name].temperature[1]

\* C38: resolve_temperature returns 0.1 whenever an explicit --model is
\* given, whatever --profile and --fast say; otherwise the temperature of
\* the profile named by --fast or --profile when it exists, else that of
\* the backend's default profile when it exists, with 0.1 in place of a
\* temperature the chosen profile does not have and when no profile is
\* found.
C38_TemperatureResolution ==
    call.pc = "resolved"
       => LET sel == call.selection
              name == SelectedProfile(sel)
              named == name # None /\ name[1] \in DOMAIN config.profiles
              dflt == default_profile(config) \in DOMAIN config.profiles
          IN /\ call.temperature # None
             /\ sel.model # None => call.temperature[1] = "0.1"
             /\ (sel.model = None /\ named)
                   => call.temperature[1] = ProfileTemperature(name[1])
             /\ (sel.model = None /\ ~named /\ dflt)
                   => call.temperature[1] = ProfileTemperature(default_profile(config))
             /\ (sel.model = None /\ ~named /\ ~dflt) => call.temperature[1] = "0.1"

\* --model was given together with --profile heavy, whose temperature is
\* 0.9: the result is 0.1
C38_Witness ==
    /\ call.pc = "resolved"
    /\ call.selection.model # None /\ ~call.selection.fast
    /\ call.selection.profile = Some("heavy")
    /\ "heavy" \in DOMAIN config.profiles
    /\ config.profiles["heavy"].temperature = Some("0.9")
    /\ call.temperature = Some("0.1")

(***************************************************************************)
(* Properties of the input prompt (TuiSpec)                                *)
(***************************************************************************)
\* C39: for every sequence of input bytes, the loop returns Query(text)
\* only when Enter arrives while the text is non-empty, and text is then
\* the accumulated text; Enter on the empty text, Escape, Ctrl+C or the end
\* of input return Cancelled; Backspace removes the last character, Ctrl+U
\* empties the text, and neither returns a result.
C39_InputLoop ==
    [][ (call.result = None /\ call' # call /\ call'.result # Some(<<"Err">>))
          => LET ks      == call'.last
                 Has(bs) == \E i \in 1..Len(ks) : ks[i] \in bs
             IN  /\ (call'.result # None /\ call'.result[1][1] = "Query")
                       => /\ Has({13, 10}) /\ call.input_text # <<>>
                          /\ call'.result[1][2] = call.input_text
                 /\ (ks = <<>> \/ Has({27, 3}) \/ (Has({13, 10}) /\ call.input_text = <<>>))
                       => call'.result = Some(<<"Cancelled">>)
                 /\ (ks # <<>> /\ ks[1] \in {127, 8})
                       => /\ call'.result = None
                          /\ call'.input_text =
                                SubSeq(call.input_text, 1, Len(call.input_text) - 1)
                 /\ (ks # <<>> /\ ks[1] = 21)
                       => call'.result = None /\ call'.input_text = <<>> ]_vars

(***************************************************************************)
(* Properties of clean_command (CleanSpec)                                 *)
(***************************************************************************)
\* C40: clean_command returns a command with nothing around it unchanged;
\* from a command in single backticks, in a fenced block with a language
\* line, or behind one of the listed preambles it returns the bare command;
\* and what it returns is a fixed point: cleaned again it is the same.
C40_CleanCommand ==
    /\ (call.pc # "response" /\ ~call.padded /\ call.pre = "" /\ call.wrap = "none")
          => call.command = Some(call.response)
    /\ (call.pc # "response" /\ (call.pre = "" \/ call.wrap = "none"))
          => call.command = Some(call.cmd)
    /\ call.pc = "twice" => call.again = call.command

====
